---- MODULE Spec2Model ----
(***************************************************************************)
(* SwiftMove backend: the admin and chat request handlers over the         *)
(* MongoDB collections contacts, bookings, payments, tasks, chat_messages  *)
(* and chat_sessions.  Every handler is an asyncio coroutine: it runs      *)
(* without interruption between two awaits, and every await is one         *)
(* storage call.  One action of this module is therefore one storage call  *)
(* together with the handler code that runs before it (from the previous   *)
(* await) and, for the last call of a handler, the code that builds the    *)
(* reply.  Requests interleave at these steps.                             *)
(***************************************************************************)
EXTENDS Integers, Sequences, FiniteSets, TLC

\* Number of requests of one behaviour; request r is served at most once.
MaxReq == 3
\* Last value of the wall clock.
MaxTime == 2

\* Python's None for numbers, timestamps and ids; NoneStr for strings and enums.
None == 0
NoneStr == "None"

Requests == 1 .. MaxReq

VARIABLES
    contacts,       \* db.contacts: leads, in insertion order
    bookings,       \* db.bookings
    payments,       \* db.payments
    tasks,          \* db.tasks
    chat_messages,  \* db.chat_messages
    chat_sessions,  \* db.chat_sessions
    now,            \* the wall clock (datetime.now / datetime.utcnow)
    rq,             \* rq[r]: the request r, its position and its locals
    reply           \* the HTTP response sent last

vars ==
    <<contacts, bookings, payments, tasks, chat_messages, chat_sessions, now, rq, reply>>

-----------------------------------------------------------------------------
(* Storage calls.  A collection is the sequence of its documents in         *)
(* insertion order; a filter and a $set document are records, as the dicts  *)
(* the handlers pass.                                                      *)

\* A dict without keys.
EmptyDict == [k \in {} |-> None]

\* The document matches the filter {field: value, ...}.
Matches(doc, filter) ==
    \A k \in DOMAIN filter : k \in DOMAIN doc /\ doc[k] = filter[k]

Matching(coll, filter) == {i \in 1 .. Len(coll) : Matches(coll[i], filter)}

\* find_one: index of the first document matching the filter, 0 when none does.
FirstIdx(coll, filter) ==
    IF Matching(coll, filter) = {} THEN 0
    ELSE CHOOSE i \in Matching(coll, filter) : \A j \in Matching(coll, filter) : i <= j

insert_one(coll, doc) == Append(coll, doc)

\* {"$set": fields} applied to a document.
SetFields(doc, fields) == fields @@ doc

\* update_one: $set on the first matching document; no match changes nothing.
update_one(coll, filter, fields) ==
    IF FirstIdx(coll, filter) = 0 THEN coll
    ELSE [coll EXCEPT ![FirstIdx(coll, filter)] = SetFields(@, fields)]

\* matched_count of update_one, deleted_count of delete_one.
matched_count(coll, filter) == IF FirstIdx(coll, filter) = 0 THEN 0 ELSE 1

delete_one(coll, filter) ==
    IF FirstIdx(coll, filter) = 0 THEN coll
    ELSE [i \in 1 .. (Len(coll) - 1) |->
            IF i < FirstIdx(coll, filter) THEN coll[i] ELSE coll[i + 1]]

delete_many(coll, filter) ==
    [i \in 1 .. (Len(coll) - Cardinality(Matching(coll, filter))) |->
        coll[CHOOSE k \in (1 .. Len(coll)) \ Matching(coll, filter) :
                Cardinality({m \in (1 .. k) \ Matching(coll, filter) : TRUE}) = i]]

count_documents(coll, filter) == Cardinality(Matching(coll, filter))

Docs(coll) == {coll[i] : i \in 1 .. Len(coll)}

\* str(uuid.uuid4()): the k-th identifier drawn by request r; never repeated.
uuid4(r, k) == r * 10 + k

\* timedelta(days=n); the clock counts days.
timedelta(days) == days

-----------------------------------------------------------------------------
(* Requests.                                                               *)

Idle == [op |-> "idle", pc |-> "idle"]
Done == [op |-> "done", pc |-> "done"]

\* An identifier that no document has.
MissingId == uuid4(0, 9)

\* Request r arrives: requests arrive in the order of their numbers.
Arrives(r) ==
    /\ rq[r].op = "idle"
    /\ IF r = 1 THEN TRUE ELSE rq[r - 1].op # "idle"

\* Request r is suspended at the await named p of handler o.
At(r, o, p) == rq[r].op = o /\ rq[r].pc = p

Tick ==
    /\ now < MaxTime
    /\ now' = now + 1
    /\ UNCHANGED <<contacts, bookings, payments, tasks, chat_messages, chat_sessions, rq,
                   reply>>

Init ==
    /\ contacts = <<>>
    /\ bookings = <<>>
    /\ payments = <<>>
    /\ tasks = <<>>
    /\ chat_messages = <<>>
    /\ chat_sessions = <<>>
    /\ now = 1
    /\ rq = [r \in Requests |-> Idle]
    /\ reply = [op |-> "none", code |-> 0]

-----------------------------------------------------------------------------
(* Tasks.                                                                  *)

TaskStatus == {"pending", "in_progress", "completed", "cancelled"}
TaskPriority == {"low", "medium", "high", "urgent"}

\* models.Task(**kw): the keywords given, the defaults for the others.
Task(kw, id, t) ==
    kw @@ [id |-> id, bookingId |-> None, contactId |-> None, description |-> NoneStr,
           priority |-> "medium", status |-> "pending", dueDate |-> None,
           autoGenerated |-> FALSE, contactName |-> NoneStr, contactEmail |-> NoneStr,
           serviceType |-> NoneStr, serviceContext |-> <<>>, startedAt |-> None,
           createdAt |-> t, completedAt |-> None]

\* Bodies of POST /admin/tasks: tasks that refer to no booking and no contact.
TaskCreateBodies ==
    {[bookingId |-> None, contactId |-> None, title |-> "t1", description |-> NoneStr,
      taskType |-> "follow_up", priority |-> "low", dueDate |-> None]}

\* create_task once get_current_admin has let the request through.
create_task_handler(r) ==
    /\ \E body \in TaskCreateBodies :
        /\ tasks' = insert_one(tasks,
                Task([autoGenerated |-> FALSE, contactName |-> NoneStr] @@ body,
                     uuid4(r, 1), now))
        /\ rq' = [rq EXCEPT ![r] = Done]
        /\ reply' = [op |-> "create_task", code |-> 200, taskId |-> uuid4(r, 1)]
    /\ UNCHANGED <<contacts, bookings, payments, chat_messages, chat_sessions, now>>

create_task(r) == Arrives(r) /\ create_task_handler(r)

\* Task ids a request may name: the ids of the stored tasks, and an id that
\* no task has.
TaskIds == {d.id : d \in Docs(tasks)} \cup {MissingId}

\* Bodies of PUT /admin/tasks/{id}; "archived" is no TaskStatus.
TaskUpdateBodies ==
    {[title |-> NoneStr, description |-> NoneStr, priority |-> NoneStr, status |-> s,
      dueDate |-> None] : s \in TaskStatus \cup {"archived"}}
    \cup {[title |-> "t2", description |-> NoneStr, priority |-> NoneStr,
           status |-> NoneStr, dueDate |-> None],
          [title |-> NoneStr, description |-> "d2", priority |-> NoneStr,
           status |-> NoneStr, dueDate |-> None],
          [title |-> NoneStr, description |-> NoneStr, priority |-> "urgent",
           status |-> NoneStr, dueDate |-> None],
          [title |-> NoneStr, description |-> NoneStr, priority |-> NoneStr,
           status |-> NoneStr, dueDate |-> 2],
          [title |-> NoneStr, description |-> NoneStr, priority |-> NoneStr,
           status |-> NoneStr, dueDate |-> None]}

\* pydantic's validation of a TaskUpdate body.
TaskUpdateValid(body) ==
    /\ body.status \in TaskStatus \cup {NoneStr}
    /\ body.priority \in TaskPriority \cup {NoneStr}

\* The lifecycle timestamps update_task adds to update_dict for a status.
update_task_stamps_wrong(status, t) ==
    IF status = "in_progress" THEN [startedAt |-> t]
    ELSE IF status = "completed" THEN [completedAt |-> t]
    ELSE IF status = "pending" THEN [startedAt |-> None]
    ELSE EmptyDict

update_task_stamps(status, t) ==
    IF status = "in_progress" THEN [startedAt |-> t]
    ELSE IF status = "completed" THEN [completedAt |-> t]
    ELSE IF status = "pending" THEN [startedAt |-> None, completedAt |-> None]
    ELSE EmptyDict

\* update_dict of update_task.
update_task_dict(body, t) ==
    (IF body.title # NoneStr THEN [title |-> body.title] ELSE EmptyDict)
    @@ (IF body.description # NoneStr THEN [description |-> body.description]
        ELSE EmptyDict)
    @@ (IF body.priority # NoneStr THEN [priority |-> body.priority] ELSE EmptyDict)
    @@ (IF body.status # NoneStr
        THEN [status |-> body.status] @@ update_task_stamps(body.status, t)
        ELSE EmptyDict)
    @@ (IF body.dueDate # None THEN [dueDate |-> body.dueDate] ELSE EmptyDict)

update_task(r) ==
    /\ Arrives(r)
    /\ \E id \in TaskIds, body \in TaskUpdateBodies :
        LET code == IF ~TaskUpdateValid(body) THEN 422
                    ELSE IF DOMAIN update_task_dict(body, now) = {} THEN 400
                    ELSE IF matched_count(tasks, [id |-> id]) = 0 THEN 404
                    ELSE 200
        IN  /\ tasks' = IF code \in {200, 404}
                        THEN update_one(tasks, [id |-> id], update_task_dict(body, now))
                        ELSE tasks
            /\ rq' = [rq EXCEPT ![r] = Done]
            /\ reply' = [op |-> "update_task", code |-> code, id |-> id, body |-> body,
                         newStatus |-> body.status]
    /\ UNCHANGED <<contacts, bookings, payments, chat_messages, chat_sessions, now>>

\* valid_transitions.get(current_status, [])
valid_transitions(current) ==
    CASE current = "pending" -> {"in_progress", "completed", "cancelled"}
      [] current = "in_progress" -> {"completed", "pending", "cancelled"}
      [] current = "completed" -> {"pending"}
      [] current = "cancelled" -> {"pending"}
      [] OTHER -> {}

\* update_dict of transition_task_status.
transition_dict_forced_start(target, t) ==
    IF target = "in_progress" THEN [status |-> target, startedAt |-> t]
    ELSE IF target = "completed"
         THEN [status |-> target, startedAt |-> t, completedAt |-> t]
    ELSE IF target = "pending"
         THEN [status |-> target, startedAt |-> None, completedAt |-> None]
    ELSE [status |-> target]

transition_dict(target, t) ==
    IF target = "in_progress" THEN [status |-> target, startedAt |-> t]
    ELSE IF target = "completed" THEN [status |-> target, completedAt |-> t]
    ELSE IF target = "pending"
         THEN [status |-> target, startedAt |-> None, completedAt |-> None]
    ELSE [status |-> target]

\* Targets of PUT /admin/tasks/{id}/transition: a dict, so any string.
TransitionTargets == TaskStatus \cup {"archived"}

\* transition_task_status up to its find_one, and the checks on what it read.
transition_task_status_find(r) ==
    /\ Arrives(r)
    /\ \E id \in TaskIds, target \in TransitionTargets :
        LET i == FirstIdx(tasks, [id |-> id])
            current == IF i = 0 THEN NoneStr ELSE tasks[i].status
            code == IF i = 0 THEN 404
                    ELSE IF target \notin valid_transitions(current) THEN 400
                    ELSE 0
        IN  IF code = 0
            THEN /\ rq' = [rq EXCEPT ![r] = [op |-> "transition_task_status",
                                             pc |-> "update_one", id |-> id,
                                             target |-> target,
                                             current_status |-> current]]
                 /\ UNCHANGED reply
            ELSE /\ rq' = [rq EXCEPT ![r] = Done]
                 /\ reply' = [op |-> "transition_task_status", code |-> code, id |-> id,
                              previousStatus |-> current, newStatus |-> target]
    /\ UNCHANGED <<contacts, bookings, payments, tasks, chat_messages, chat_sessions, now>>

\* transition_task_status: its update_one and the reply.
transition_task_status_update(r) ==
    /\ At(r, "transition_task_status", "update_one")
    /\ tasks' = update_one(tasks, [id |-> rq[r].id], transition_dict(rq[r].target, now))
    /\ rq' = [rq EXCEPT ![r] = Done]
    /\ reply' = [op |-> "transition_task_status", code |-> 200, id |-> rq[r].id,
                 previousStatus |-> rq[r].current_status, newStatus |-> rq[r].target]
    /\ UNCHANGED <<contacts, bookings, payments, chat_messages, chat_sessions, now>>

delete_task(r) ==
    /\ Arrives(r)
    /\ \E id \in TaskIds :
        /\ tasks' = delete_one(tasks, [id |-> id])
        /\ rq' = [rq EXCEPT ![r] = Done]
        /\ reply' = [op |-> "delete_task", id |-> id,
                     code |-> IF matched_count(tasks, [id |-> id]) = 0
                              THEN 404 ELSE 200]
    /\ UNCHANGED <<contacts, bookings, payments, chat_messages, chat_sessions, now>>

\* The task endpoints, served concurrently.
NextTask ==
    \/ Tick
    \/ \E r \in Requests : create_task(r)
    \/ \E r \in Requests : update_task(r)
    \/ \E r \in Requests : transition_task_status_find(r)
    \/ \E r \in Requests : transition_task_status_update(r)
    \/ \E r \in Requests : delete_task(r)

SpecTask == Init /\ [][NextTask]_vars

\* Tasks that are only created and moved by transition requests.
NextTransition ==
    \/ Tick
    \/ \E r \in Requests : create_task(r)
    \/ \E r \in Requests : transition_task_status_find(r)
    \/ \E r \in Requests : transition_task_status_update(r)

SpecTransition == Init /\ [][NextTransition]_vars

-----------------------------------------------------------------------------
(* Bookings and payments.                                                  *)

\* models.ServiceBooking(**kw): the keywords given, the defaults for the others.
ServiceBooking(kw, id, t) ==
    kw @@ [id |-> id, status |-> "pending", totalCost |-> None, contractorCost |-> None,
           laborHours |-> None, convertedFromChatbot |-> None, createdAt |-> t,
           updatedAt |-> t]

\* Bodies of POST /bookings (the public booking form).
ServiceBookingCreateBodies ==
    {[name |-> "Ann", email |-> "ann@x.com", serviceType |-> "residential-moving",
      currentAddress |-> "1 Main St"]}

\* bookings.create_booking
create_booking(r) ==
    /\ Arrives(r)
    /\ \E body \in ServiceBookingCreateBodies :
        /\ bookings' = insert_one(bookings, ServiceBooking(body, uuid4(r, 1), now))
        /\ rq' = [rq EXCEPT ![r] = Done]
        /\ reply' = [op |-> "create_booking", code |-> 201, id |-> uuid4(r, 1)]
    /\ UNCHANGED <<contacts, payments, tasks, chat_messages, chat_sessions, now>>

PaymentType == {"deposit", "partial", "full", "refund"}

\* Amounts a payment body may carry: PaymentCreate.amount is any float.
Amounts == {0 - 5, 75}

\* Booking ids a request may name: those of the stored bookings, and an id
\* that no booking has.
BookingIds == {d.id : d \in Docs(bookings)} \cup {MissingId}

\* Bodies of POST /admin/payments that pass pydantic's PaymentCreate.
PaymentCreateBodies ==
    [bookingId : BookingIds, amount : Amounts, paymentType : PaymentType,
     paymentMethod : {"cash"}]

\* models.Payment(...)
Payment(body, id, t) ==
    [id |-> id, bookingId |-> body.bookingId, amount |-> body.amount,
     paymentType |-> body.paymentType, paymentMethod |-> body.paymentMethod,
     createdAt |-> t]

\* "Verify booking exists": find_one found a booking.
booking_unverified(coll, id) == TRUE

booking_found(coll, id) == FirstIdx(coll, [id |-> id]) # 0

\* payment_data.paymentType == PaymentType.DEPOSIT
is_deposit_or_payment(paymentType) == paymentType # "refund"

is_deposit(paymentType) == paymentType = "deposit"

\* The task create_payment builds for a deposit.
deposit_task(body, id, t) ==
    Task([bookingId |-> body.bookingId, title |-> "Collect remaining balance for booking",
          description |-> "Deposit received. Follow up for remaining balance.",
          taskType |-> "collect_payment", priority |-> "medium", autoGenerated |-> TRUE,
          dueDate |-> t + timedelta(3)], id, t)

\* create_payment up to its find_one, and the check on what it found.
create_payment_find(r) ==
    /\ Arrives(r)
    /\ \E body \in PaymentCreateBodies :
        IF booking_found(bookings, body.bookingId)
        THEN /\ rq' = [rq EXCEPT ![r] = [op |-> "create_payment", pc |-> "insert_payment",
                                         body |-> body]]
             /\ UNCHANGED reply
        ELSE /\ rq' = [rq EXCEPT ![r] = Done]
             /\ reply' = [op |-> "create_payment", code |-> 404, body |-> body]
    /\ UNCHANGED <<contacts, bookings, payments, tasks, chat_messages, chat_sessions, now>>

\* create_payment: the payment is built and inserted; the reply unless a
\* deposit asks for a task.
create_payment_insert(r) ==
    /\ At(r, "create_payment", "insert_payment")
    /\ payments' = insert_one(payments, Payment(rq[r].body, uuid4(r, 1), now))
    /\ IF is_deposit(rq[r].body.paymentType)
       THEN /\ rq' = [rq EXCEPT ![r].pc = "insert_task"]
            /\ UNCHANGED reply
       ELSE /\ rq' = [rq EXCEPT ![r] = Done]
            /\ reply' = [op |-> "create_payment", code |-> 200, body |-> rq[r].body,
                         paymentId |-> uuid4(r, 1)]
    /\ UNCHANGED <<contacts, bookings, tasks, chat_messages, chat_sessions, now>>

\* create_payment: the task of a deposit is built and inserted, and the reply.
create_payment_task(r) ==
    /\ At(r, "create_payment", "insert_task")
    /\ tasks' = insert_one(tasks, deposit_task(rq[r].body, uuid4(r, 2), now))
    /\ rq' = [rq EXCEPT ![r] = Done]
    /\ reply' = [op |-> "create_payment", code |-> 200, body |-> rq[r].body,
                 paymentId |-> uuid4(r, 1)]
    /\ UNCHANGED <<contacts, bookings, payments, chat_messages, chat_sessions, now>>

\* Payment ids a request may name.
PaymentIds == {d.id : d \in Docs(payments)} \cup {MissingId}

delete_payment(r) ==
    /\ Arrives(r)
    /\ \E id \in PaymentIds :
        /\ payments' = delete_one(payments, [id |-> id])
        /\ rq' = [rq EXCEPT ![r] = Done]
        /\ reply' = [op |-> "delete_payment", id |-> id,
                     code |-> IF matched_count(payments, [id |-> id]) = 0
                              THEN 404 ELSE 200]
    /\ UNCHANGED <<contacts, bookings, tasks, chat_messages, chat_sessions, now>>

\* The booking form and the payment endpoints, served concurrently.
NextPay ==
    \/ Tick
    \/ \E r \in Requests : create_booking(r)
    \/ \E r \in Requests : create_payment_find(r)
    \/ \E r \in Requests : create_payment_insert(r)
    \/ \E r \in Requests : create_payment_task(r)
    \/ \E r \in Requests : delete_payment(r)

SpecPay == Init /\ [][NextPay]_vars

-----------------------------------------------------------------------------
(* The chatbot: messages, sessions and the chatbot lead of a session.      *)

\* Session ids and message texts the chat widget sends.
Sessions == {"s1"}
Texts == {"i need help moving", "a@b.com"}

\* Texts of a longer conversation, for the fold of get_session_contact_info.
HistoryTexts ==
    {"my name is ann", "this is bob", "carol", "a@b.com", "c@d.com 812-555-1234",
     "moving next week, 2 bed, piano", "cleaning on 3/4/2025, studio, antique",
     "from 1 main street", "to 9 oak avenue"}

\* re.search(email_pattern, text), on Texts and HistoryTexts.
extract_email(text) ==
    CASE text = "a@b.com" -> "a@b.com"
      [] text = "c@d.com 812-555-1234" -> "c@d.com"
      [] OTHER -> NoneStr

\* re.search(phone_pattern, text): one text holds ten digits.
extract_phone(text) ==
    IF text = "c@d.com 812-555-1234" THEN "812-555-1234" ELSE NoneStr

\* The name taken after a self-introduction prefix ("my name is", "i am",
\* "i'm", "this is", "name is", "call me", "it's"), in title case.
name_after_prefix(text) ==
    CASE text = "my name is ann" -> "Ann"
      [] text = "this is bob" -> "Bob"
      [] OTHER -> NoneStr

\* The short alphabetic message taken for a name: at most three words, only
\* letters, no service keyword.  "i need help moving" has four words and
\* the texts with "@", digits or a service keyword are no names.
short_alpha_name(text) == IF text = "carol" THEN "Carol" ELSE NoneStr

\* The service whose keyword the text holds.
service_interest(text) ==
    CASE text \in {"i need help moving", "moving next week, 2 bed, piano"} -> "moving"
      [] text = "cleaning on 3/4/2025, studio, antique" -> "cleaning"
      [] OTHER -> NoneStr

\* The first bedroom pattern found in the text, formatted.
property_size(text) ==
    CASE text = "moving next week, 2 bed, piano" -> "2 bedroom"
      [] text = "cleaning on 3/4/2025, studio, antique" -> "Studio"
      [] OTHER -> NoneStr

\* The first date pattern found in the text.
move_date(text) ==
    CASE text = "moving next week, 2 bed, piano" -> "next week"
      [] text = "cleaning on 3/4/2025, studio, antique" -> "3/4/2025"
      [] OTHER -> NoneStr

\* The special-item keywords found in the text, joined.
special_items(text) ==
    CASE text = "moving next week, 2 bed, piano" -> "piano"
      [] text = "cleaning on 3/4/2025, studio, antique" -> "antique"
      [] OTHER -> NoneStr

\* The text holds a street indicator; it holds "from"; it holds "to".
address_indicator(text) == text \in {"from 1 main street", "to 9 oak avenue"}
holds_from(text) == text = "from 1 main street"
holds_to(text) == text = "to 9 oak avenue"

\* models.ChatMessage(...)
ChatMessage(id, sessionId, message, sender, t) ==
    [id |-> id, sessionId |-> sessionId, message |-> message, sender |-> sender,
     timestamp |-> t]

\* The texts of the user messages of a session, oldest first.
UserTexts(coll, sessionId) ==
    LET FromUser(d) == d.sessionId = sessionId /\ d.sender = "user"
        mine == SelectSeq(coll, FromUser)
    IN  [i \in 1 .. Len(mine) |-> mine[i].message]

\* The last n elements of a sequence (python's seq[-n:]).
LastN(seq, n) ==
    IF Len(seq) <= n THEN seq ELSE SubSeq(seq, Len(seq) - n + 1, Len(seq))

\* The name after one iteration: a prefixed name is always taken, a short
\* alphabetic message only while no name is collected.
name_step(info, text) ==
    IF name_after_prefix(text) # NoneStr THEN name_after_prefix(text)
    ELSE IF info.name = NoneStr /\ short_alpha_name(text) # NoneStr
         THEN short_alpha_name(text) ELSE info.name

\* The addresses after one iteration: the text of a message with a street
\* indicator fills from_address or to_address while that one is empty.
address_step(info, text) ==
    IF ~address_indicator(text) THEN info
    ELSE IF holds_from(text) /\ info.from_address = NoneStr
         THEN [info EXCEPT !.from_address = text]
    ELSE IF holds_to(text) /\ info.to_address = NoneStr
         THEN [info EXCEPT !.to_address = text]
    ELSE IF info.from_address = NoneStr THEN [info EXCEPT !.from_address = text]
    ELSE IF info.to_address = NoneStr THEN [info EXCEPT !.to_address = text]
    ELSE info

\* One iteration of the loop of get_session_contact_info over a user text.
contact_info_step(info, text) ==
    LET email == IF extract_email(text) # NoneStr THEN extract_email(text) ELSE info.email
        phone == IF extract_phone(text) # NoneStr THEN extract_phone(text) ELSE info.phone
        interest == IF service_interest(text) # NoneStr THEN service_interest(text)
                    ELSE info.service_interest
        size == IF property_size(text) # NoneStr THEN property_size(text)
                ELSE info.property_size
        date == IF move_date(text) # NoneStr THEN move_date(text) ELSE info.move_date
        items == IF special_items(text) # NoneStr THEN special_items(text)
                 ELSE info.special_items
    IN  [address_step(info, text)
            EXCEPT !.email = email, !.phone = phone, !.name = name_step(info, text),
                   !.service_interest = interest, !.property_size = size,
                   !.move_date = date, !.special_items = items]

RECURSIVE contact_info_fold(_, _)
contact_info_fold(info, texts) ==
    IF texts = <<>> THEN info
    ELSE contact_info_fold(contact_info_step(info, Head(texts)), Tail(texts))

\* collected_info before the loop.
collected_info ==
    [name |-> NoneStr, email |-> NoneStr, phone |-> NoneStr,
     service_interest |-> NoneStr, from_address |-> NoneStr, to_address |-> NoneStr,
     move_date |-> NoneStr, property_size |-> NoneStr, special_items |-> NoneStr,
     additional_details |-> <<>>]

\* get_session_contact_info: the fold over the session's user messages.
get_session_contact_info(coll, sessionId) ==
    [contact_info_fold(collected_info, UserTexts(coll, sessionId))
        EXCEPT !.additional_details = LastN(UserTexts(coll, sessionId), 5)]

\* The name send_chat_message reads from the current message: what follows
\* "my name is", "i am", "i'm", "this is" or "name is" in a message of at most
\* four words, else a message of at most three words of letters only.
current_message_name(text) == NoneStr

\* send_chat_message: the current message once more, after the fold.
current_message_info(info, text) ==
    [info EXCEPT !.email = IF extract_email(text) # NoneStr THEN extract_email(text)
                           ELSE @,
                 !.phone = IF extract_phone(text) # NoneStr THEN extract_phone(text)
                           ELSE @,
                 !.name = IF @ = NoneStr /\ current_message_name(text) # NoneStr
                          THEN current_message_name(text) ELSE @]

\* The fallback answer of the chatbot.
fallback_text == "please call us at (812) 669-4165"

apology_without_phone(id, sessionId, t) ==
    ChatMessage(id, sessionId, "i'm having trouble responding right now", "bot", t)

\* fallback_message of the except branch of send_chat_message.
fallback_message(id, sessionId, t) == ChatMessage(id, sessionId, fallback_text, "bot", t)

\* Bodies of POST /chat/message, and whether OPENAI_API_KEY is set.
ChatMessageCreateBodies == [sessionId : Sessions, message : Texts]

\* send_chat_message up to the insert of the user message; without an API
\* key, the insert of the fallback message and the reply.
send_chat_message_user(r) ==
    /\ Arrives(r)
    /\ \E body \in ChatMessageCreateBodies, api_key \in BOOLEAN :
        IF api_key
        THEN /\ chat_messages' = insert_one(chat_messages,
                    ChatMessage(uuid4(r, 1), body.sessionId, body.message, "user", now))
             /\ rq' = [rq EXCEPT ![r] = [op |-> "send_chat_message", pc |-> "contact_info",
                                         body |-> body]]
             /\ UNCHANGED reply
        ELSE /\ chat_messages' = insert_one(chat_messages,
                    fallback_message(uuid4(r, 3), body.sessionId, now))
             /\ rq' = [rq EXCEPT ![r] = Done]
             /\ reply' = [op |-> "send_chat_message", code |-> 200,
                          sessionId |-> body.sessionId,
                          message |-> fallback_message(uuid4(r, 3), body.sessionId,
                                                       now).message]
    /\ UNCHANGED <<contacts, bookings, payments, tasks, chat_sessions, now>>

\* send_chat_message: the find of get_session_contact_info, and contact_info.
send_chat_message_info(r) ==
    /\ At(r, "send_chat_message", "contact_info")
    /\ rq' = [rq EXCEPT ![r] =
                [op |-> "send_chat_message", pc |-> "recent", body |-> rq[r].body,
                 contact_info |->
                     current_message_info(
                         get_session_contact_info(chat_messages, rq[r].body.sessionId),
                         rq[r].body.message)]]
    /\ UNCHANGED <<contacts, bookings, payments, tasks, chat_messages, chat_sessions, now,
                   reply>>

\* send_chat_message: the find of the recent messages (the prompt's context).
send_chat_message_recent(r) ==
    /\ At(r, "send_chat_message", "recent")
    /\ rq' = [rq EXCEPT ![r].pc = "bot"]
    /\ UNCHANGED <<contacts, bookings, payments, tasks, chat_messages, chat_sessions, now,
                   reply>>

\* send_chat_message: the OpenAI call and the insert of the bot message; when
\* the call raises, the insert of the fallback message and the reply.
send_chat_message_bot(r) ==
    /\ At(r, "send_chat_message", "bot")
    /\ \E openai_ok \in BOOLEAN :
        IF openai_ok
        THEN /\ chat_messages' = insert_one(chat_messages,
                    ChatMessage(uuid4(r, 2), rq[r].body.sessionId, "bot_response", "bot",
                                now))
             /\ rq' = [rq EXCEPT ![r].pc = "session"]
             /\ UNCHANGED reply
        ELSE /\ chat_messages' = insert_one(chat_messages,
                    fallback_message(uuid4(r, 3), rq[r].body.sessionId, now))
             /\ rq' = [rq EXCEPT ![r] = Done]
             /\ reply' = [op |-> "send_chat_message", code |-> 200,
                          sessionId |-> rq[r].body.sessionId,
                          message |-> fallback_message(uuid4(r, 3),
                                                       rq[r].body.sessionId, now).message]
    /\ UNCHANGED <<contacts, bookings, payments, tasks, chat_sessions, now>>

\* session_data of send_chat_message.
session_data(sessionId, info, t) ==
    [id |-> sessionId, lastActivity |-> t, updatedAt |-> t]
    @@ (IF info.name # NoneStr THEN [customerName |-> info.name] ELSE EmptyDict)
    @@ (IF info.email # NoneStr THEN [customerEmail |-> info.email] ELSE EmptyDict)
    @@ (IF info.phone # NoneStr THEN [customerPhone |-> info.phone] ELSE EmptyDict)

\* update_one(..., upsert=True) with $set and $setOnInsert.
upsert_one(coll, filter, fields, on_insert) ==
    IF FirstIdx(coll, filter) = 0 THEN insert_one(coll, fields @@ on_insert)
    ELSE update_one(coll, filter, fields)

\* "If we have collected at least some contact info".
has_contact_info(info) ==
    info.name # NoneStr \/ info.email # NoneStr \/ info.phone # NoneStr

\* send_chat_message: the upsert of the chat session; the reply when no
\* contact detail is known.
send_chat_message_session(r) ==
    /\ At(r, "send_chat_message", "session")
    /\ chat_sessions' = upsert_one(chat_sessions, [id |-> rq[r].body.sessionId],
                            session_data(rq[r].body.sessionId, rq[r].contact_info, now),
                            [createdAt |-> now])
    /\ IF has_contact_info(rq[r].contact_info)
       THEN /\ rq' = [rq EXCEPT ![r].pc = "find_contact"]
            /\ UNCHANGED reply
       ELSE /\ rq' = [rq EXCEPT ![r] = Done]
            /\ reply' = [op |-> "send_chat_message", code |-> 200,
                         sessionId |-> rq[r].body.sessionId, message |-> "bot_response"]
    /\ UNCHANGED <<contacts, bookings, payments, tasks, chat_messages, now>>

\* send_chat_message: the find_one of the session's chatbot lead.
send_chat_message_find_contact(r) ==
    /\ At(r, "send_chat_message", "find_contact")
    /\ rq' = [rq EXCEPT ![r] =
                [op |-> "send_chat_message", pc |-> "write_contact", body |-> rq[r].body,
                 contact_info |-> rq[r].contact_info,
                 existing_contact |->
                     FirstIdx(contacts, [sessionId |-> rq[r].body.sessionId,
                                         source |-> "chatbot"]) # 0]]
    /\ UNCHANGED <<contacts, bookings, payments, tasks, chat_messages, chat_sessions, now,
                   reply>>

\* contact_data of send_chat_message; message holds the conversation notes.
contact_data(sessionId, info, t) ==
    [name |-> IF info.name # NoneStr THEN info.name ELSE "Chat User",
     email |-> IF info.email # NoneStr THEN info.email ELSE "pending@chat.com",
     phone |-> IF info.phone # NoneStr THEN info.phone ELSE "Pending",
     subject |-> "Chat Inquiry - General",
     message |-> info.additional_details, status |-> "new", sessionId |-> sessionId,
     source |-> "chatbot", updatedAt |-> t]

\* send_chat_message: the lead is updated if it was found, inserted with a
\* fresh id if not; and the reply.
send_chat_message_contact(r) ==
    /\ At(r, "send_chat_message", "write_contact")
    /\ contacts' =
          IF rq[r].existing_contact
          THEN update_one(contacts,
                          [sessionId |-> rq[r].body.sessionId, source |-> "chatbot"],
                          contact_data(rq[r].body.sessionId, rq[r].contact_info, now))
          ELSE insert_one(contacts,
                          contact_data(rq[r].body.sessionId, rq[r].contact_info, now)
                          @@ [id |-> uuid4(r, 4), createdAt |-> now])
    /\ rq' = [rq EXCEPT ![r] = Done]
    /\ reply' = [op |-> "send_chat_message", code |-> 200,
                 sessionId |-> rq[r].body.sessionId, message |-> "bot_response"]
    /\ UNCHANGED <<bookings, payments, tasks, chat_messages, chat_sessions, now>>

\* clear_chat_session: delete_many of the session's messages.
clear_chat_session_messages(r) ==
    /\ Arrives(r)
    /\ \E sessionId \in Sessions :
        /\ chat_messages' = delete_many(chat_messages, [sessionId |-> sessionId])
        /\ rq' = [rq EXCEPT ![r] = [op |-> "clear_chat_session", pc |-> "session",
                                    session_id |-> sessionId]]
    /\ UNCHANGED <<contacts, bookings, payments, tasks, chat_sessions, now, reply>>

\* clear_chat_session: delete_one of the chat session.
clear_chat_session_session(r) ==
    /\ At(r, "clear_chat_session", "session")
    /\ chat_sessions' = delete_one(chat_sessions, [id |-> rq[r].session_id])
    /\ rq' = [rq EXCEPT ![r].pc = "contact"]
    /\ UNCHANGED <<contacts, bookings, payments, tasks, chat_messages, now, reply>>

\* clear_chat_session: delete_one of the session's chatbot lead, and the reply.
clear_chat_session_contact(r) ==
    /\ At(r, "clear_chat_session", "contact")
    /\ contacts' = delete_one(contacts, [sessionId |-> rq[r].session_id,
                                         source |-> "chatbot"])
    /\ rq' = [rq EXCEPT ![r] = Done]
    /\ reply' = [op |-> "clear_chat_session", code |-> 200,
                 sessionId |-> rq[r].session_id]
    /\ UNCHANGED <<bookings, payments, tasks, chat_messages, chat_sessions, now>>

-----------------------------------------------------------------------------
(* The conversion of a chatbot lead into a booking.                        *)

\* Ids a conversion request may name: the stored leads' and an unknown one.
ContactIds == {d.id : d \in Docs(contacts)} \cup {MissingId}

\* The conversion_data of the request: the name override, or none.
ConversionBodies == {[customerName |-> NoneStr]}

\* Whether a text holds "@", and whether it is all digits, on Texts.
contains_at(text) == text = "a@b.com"
isdigit(text) == FALSE

\* customer_name: the lead's name, else the first conversation note when it
\* is neither an email nor a number, else the override of the request.
customer_name(quote, conversion_data) ==
    IF conversion_data.customerName # NoneStr THEN conversion_data.customerName
    ELSE IF /\ quote.message # <<>>
            /\ ~contains_at(quote.message[1])
            /\ ~isdigit(quote.message[1])
         THEN quote.message[1]
         ELSE quote.name

\* The request once answered: which lead it named and with which code.
Converted(quote_id, code) ==
    [op |-> "done", pc |-> "done", quote_id |-> quote_id, code |-> code]

\* The answer of the conversion endpoint.
convert_reply(quote_id, code) ==
    [op |-> "convert_chatbot_to_booking", code |-> code, quote_id |-> quote_id]

\* A storage call that raises: the handler answers 500.
convert_raises(r) ==
    /\ rq' = [rq EXCEPT ![r] = Converted(rq[r].quote_id, 500)]
    /\ reply' = convert_reply(rq[r].quote_id, 500)
    /\ UNCHANGED <<contacts, bookings, payments, tasks, chat_messages, chat_sessions, now>>

\* convert_chatbot_to_booking: find_one of the chatbot lead; 404 without it.
convert_find_quote(r) ==
    /\ Arrives(r)
    /\ \E quote_id \in ContactIds, conversion_data \in ConversionBodies, ok \in BOOLEAN :
        LET i == FirstIdx(contacts, [id |-> quote_id, source |-> "chatbot"])
            code == IF ~ok THEN 500 ELSE 404
        IN  IF ok /\ i # 0
            THEN /\ rq' = [rq EXCEPT ![r] =
                            [op |-> "convert_chatbot_to_booking", pc |-> "find_booking",
                             quote_id |-> quote_id, conversion_data |-> conversion_data,
                             quote |-> contacts[i]]]
                 /\ UNCHANGED reply
            ELSE /\ rq' = [rq EXCEPT ![r] = Converted(quote_id, code)]
                 /\ reply' = convert_reply(quote_id, code)
    /\ UNCHANGED <<contacts, bookings, payments, tasks, chat_messages, chat_sessions, now>>

\* mutant: the conversion never finds an earlier booking of the lead
never_converted(coll, quote_id) == FALSE

\* "Check if already converted": a booking names the lead.
existing_booking(coll, quote_id) == FirstIdx(coll, [convertedFromChatbot |-> quote_id]) # 0

\* convert_chatbot_to_booking: find_one of a booking made from the lead; 400
\* with one.
convert_find_booking(r) ==
    /\ At(r, "convert_chatbot_to_booking", "find_booking")
    /\ \E ok \in BOOLEAN :
        IF ~ok THEN convert_raises(r)
        ELSE IF existing_booking(bookings, rq[r].quote_id)
        THEN /\ rq' = [rq EXCEPT ![r] = Converted(rq[r].quote_id, 400)]
             /\ reply' = convert_reply(rq[r].quote_id, 400)
             /\ UNCHANGED <<contacts, bookings, payments, tasks, chat_messages,
                            chat_sessions, now>>
        ELSE /\ rq' = [rq EXCEPT ![r].pc = "insert_booking"]
             /\ UNCHANGED <<contacts, bookings, payments, tasks, chat_messages,
                            chat_sessions, now, reply>>

\* The booking built from the lead.
converted_booking(quote, quote_id, conversion_data, id, t) ==
    [id |-> id, name |-> customer_name(quote, conversion_data), email |-> quote.email,
     serviceType |-> "General Service", currentAddress |-> "To be confirmed",
     status |-> "pending", totalCost |-> None, contractorCost |-> None,
     laborHours |-> None, convertedFromChatbot |-> quote_id, createdAt |-> t,
     updatedAt |-> t]

\* convert_chatbot_to_booking: insert_one of the booking.
convert_insert_booking(r) ==
    /\ At(r, "convert_chatbot_to_booking", "insert_booking")
    /\ \E ok \in BOOLEAN :
        IF ~ok THEN convert_raises(r)
        ELSE /\ bookings' = insert_one(bookings,
                    converted_booking(rq[r].quote, rq[r].quote_id, rq[r].conversion_data,
                                      uuid4(r, 1), now))
             /\ rq' = [rq EXCEPT ![r].pc = "update_contact"]
             /\ UNCHANGED <<contacts, payments, tasks, chat_messages, chat_sessions, now,
                            reply>>

\* convert_chatbot_to_booking: update_one of the lead, marked as converted.
convert_update_contact(r) ==
    /\ At(r, "convert_chatbot_to_booking", "update_contact")
    /\ \E ok \in BOOLEAN :
        IF ~ok THEN convert_raises(r)
        ELSE /\ contacts' = update_one(contacts, [id |-> rq[r].quote_id],
                    [status |-> "contacted", convertedToBooking |-> uuid4(r, 1),
                     updatedAt |-> now])
             /\ rq' = [rq EXCEPT ![r].pc = "insert_task"]
             /\ UNCHANGED <<bookings, payments, tasks, chat_messages, chat_sessions, now,
                            reply>>

\* The follow-up task of a converted booking.
follow_up_task(quote, quote_id, conversion_data, booking_id, id, t) ==
    Task([bookingId |-> booking_id, contactId |-> quote_id, title |-> "Initial follow-up",
          description |-> "Booking converted from chatbot lead", taskType |-> "follow_up",
          priority |-> "high", dueDate |-> t + timedelta(1), autoGenerated |-> TRUE,
          contactName |-> customer_name(quote, conversion_data)], id, t)

\* convert_chatbot_to_booking: insert_one of the follow-up task, and the reply.
convert_insert_task(r) ==
    /\ At(r, "convert_chatbot_to_booking", "insert_task")
    /\ \E ok \in BOOLEAN :
        IF ~ok THEN convert_raises(r)
        ELSE /\ tasks' = insert_one(tasks,
                    follow_up_task(rq[r].quote, rq[r].quote_id, rq[r].conversion_data,
                                   uuid4(r, 1), uuid4(r, 2), now))
             /\ rq' = [rq EXCEPT ![r] = Converted(rq[r].quote_id, 200)]
             /\ reply' = convert_reply(rq[r].quote_id, 200)
             /\ UNCHANGED <<contacts, bookings, payments, chat_messages, chat_sessions, now>>

NextLead ==
    \/ Tick
    \/ \E r \in Requests : send_chat_message_user(r)
    \/ \E r \in Requests : send_chat_message_info(r)
    \/ \E r \in Requests : send_chat_message_recent(r)
    \/ \E r \in Requests : send_chat_message_bot(r)
    \/ \E r \in Requests : send_chat_message_session(r)
    \/ \E r \in Requests : send_chat_message_find_contact(r)
    \/ \E r \in Requests : send_chat_message_contact(r)
    \/ \E r \in Requests : clear_chat_session_messages(r)
    \/ \E r \in Requests : clear_chat_session_session(r)
    \/ \E r \in Requests : clear_chat_session_contact(r)
    \/ \E r \in Requests : convert_find_quote(r)
    \/ \E r \in Requests : convert_find_booking(r)
    \/ \E r \in Requests : convert_insert_booking(r)
    \/ \E r \in Requests : convert_update_contact(r)
    \/ \E r \in Requests : convert_insert_task(r)

SpecLead == Init /\ [][NextLead]_vars

\* Stored conversations of session s1: up to MaxHistory user messages.
MaxHistory == 2

RECURSIVE Histories(_)
Histories(n) ==
    IF n = 0 THEN {<<>>}
    ELSE Histories(n - 1)
         \cup {Append(h, ChatMessage(uuid4(100, n), "s1", text, "user", 1)) :
                    h \in {g \in Histories(n - 1) : Len(g) = n - 1}, text \in HistoryTexts}

InitHistory ==
    /\ chat_messages \in Histories(MaxHistory)
    /\ contacts = <<>>
    /\ bookings = <<>>
    /\ payments = <<>>
    /\ tasks = <<>>
    /\ chat_sessions = <<>>
    /\ now = 1
    /\ rq = [r \in Requests |-> Idle]
    /\ reply = [op |-> "none", code |-> 0]

\* Messages arriving in a stored conversation, up to the fold of
\* get_session_contact_info.
NextAggregate ==
    \/ \E r \in Requests : send_chat_message_user(r)
    \/ \E r \in Requests : send_chat_message_info(r)

SpecAggregate == InitHistory /\ [][NextAggregate]_vars

\* The chat endpoints alone.
NextChat ==
    \/ Tick
    \/ \E r \in Requests : send_chat_message_user(r)
    \/ \E r \in Requests : send_chat_message_info(r)
    \/ \E r \in Requests : send_chat_message_recent(r)
    \/ \E r \in Requests : send_chat_message_bot(r)
    \/ \E r \in Requests : send_chat_message_session(r)
    \/ \E r \in Requests : send_chat_message_find_contact(r)
    \/ \E r \in Requests : send_chat_message_contact(r)
    \/ \E r \in Requests : clear_chat_session_messages(r)
    \/ \E r \in Requests : clear_chat_session_session(r)
    \/ \E r \in Requests : clear_chat_session_contact(r)

SpecChat == Init /\ [][NextChat]_vars

-----------------------------------------------------------------------------
(* Booking finances: the cost fields of a booking and the reports derived  *)
(* from the payment ledger.                                                *)

\* find(filter): the matching documents in stored order.
find(coll, filter) ==
    LET Test(d) == Matches(d, filter)
    IN  SelectSeq(coll, Test)

\* cursor.to_list(length): at most length documents.
to_list(docs, length) ==
    IF Len(docs) <= length THEN docs ELSE SubSeq(docs, 1, length)

\* The length given to to_list by get_booking_details.
DetailsListLength == 100

\* sum(p.get('amount', 0) for p in payments[lo..hi] if <refund or not>),
\* added up by halves.
RECURSIVE sum_range(_, _, _, _)
sum_range(docs, lo, hi, refunds) ==
    IF lo > hi THEN 0
    ELSE IF lo = hi
    THEN (IF (docs[lo].paymentType = "refund") = refunds THEN docs[lo].amount ELSE 0)
    ELSE LET mid == (lo + hi) \div 2
         IN  sum_range(docs, lo, mid, refunds) + sum_range(docs, mid + 1, hi, refunds)

\* sum(p.get('amount', 0) for p in payments if <refund or not>).
sum_amounts(docs, refunds) == sum_range(docs, 1, Len(docs), refunds)

max(a, b) == IF a >= b THEN a ELSE b

\* mutant: the refunds are not added back to the balance
financials_without_refunds(booking, docs) ==
    LET total_paid == sum_amounts(docs, FALSE)
        total_cost == booking.totalCost
        balance_due == total_cost - total_paid
    IN  [totalCost |-> total_cost, totalPaid |-> total_paid,
         totalRefunded |-> sum_amounts(docs, TRUE), balanceDue |-> max(0, balance_due),
         paymentStatus |-> IF balance_due <= 0 /\ total_cost > 0 THEN "paid"
                           ELSE IF total_paid > 0 THEN "partial" ELSE "unpaid"]

\* "Calculate payment summary" of get_booking_details; a null totalCost
\* counts as 0.
financials(booking, docs) ==
    LET total_paid == sum_amounts(docs, FALSE)
        total_refunded == sum_amounts(docs, TRUE)
        total_cost == booking.totalCost
        balance_due == total_cost - total_paid + total_refunded
    IN  [totalCost |-> total_cost, totalPaid |-> total_paid,
         totalRefunded |-> total_refunded, balanceDue |-> max(0, balance_due),
         paymentStatus |-> IF balance_due <= 0 /\ total_cost > 0 THEN "paid"
                           ELSE IF total_paid > 0 THEN "partial" ELSE "unpaid"]

\* get_booking_details: find_one of the booking; 404 without it.
get_booking_details_booking(r) ==
    /\ Arrives(r)
    /\ \E booking_id \in BookingIds :
        LET i == FirstIdx(bookings, [id |-> booking_id])
        IN  IF i = 0
            THEN /\ rq' = [rq EXCEPT ![r] = Done]
                 /\ reply' = [op |-> "get_booking_details", code |-> 404,
                              id |-> booking_id]
            ELSE /\ rq' = [rq EXCEPT ![r] = [op |-> "get_booking_details",
                                             pc |-> "payments", booking_id |-> booking_id,
                                             booking |-> bookings[i]]]
                 /\ UNCHANGED reply
    /\ UNCHANGED <<contacts, bookings, payments, tasks, chat_messages, chat_sessions, now>>

\* get_booking_details: find of the booking's payments.
get_booking_details_payments(r) ==
    /\ At(r, "get_booking_details", "payments")
    /\ rq' = [rq EXCEPT ![r] =
                [op |-> "get_booking_details", pc |-> "tasks",
                 booking_id |-> rq[r].booking_id, booking |-> rq[r].booking,
                 payments |-> to_list(find(payments, [bookingId |-> rq[r].booking_id]),
                                      DetailsListLength)]]
    /\ UNCHANGED <<contacts, bookings, payments, tasks, chat_messages, chat_sessions, now,
                   reply>>

\* get_booking_details: find of the booking's tasks, the payment summary and
\* the reply.
get_booking_details_tasks(r) ==
    /\ At(r, "get_booking_details", "tasks")
    /\ rq' = [rq EXCEPT ![r] = Done]
    /\ reply' = [op |-> "get_booking_details", code |-> 200, id |-> rq[r].booking_id,
                 booking |-> rq[r].booking, payments |-> rq[r].payments,
                 tasks |-> to_list(find(tasks, [bookingId |-> rq[r].booking_id]),
                                   DetailsListLength),
                 financials |-> financials(rq[r].booking, rq[r].payments)]
    /\ UNCHANGED <<contacts, bookings, payments, tasks, chat_messages, chat_sessions, now>>

\* Stored states the reports are computed from: two bookings and a ledger of
\* payments logged against them, this month or last month.
MaxLedger == 2

\* The days of a month of the clock; day 1 opens a month.
DaysPerMonth == 30

\* The two stored bookings' ids.
LedgerBookingIds == <<uuid4(100, 1), uuid4(100, 2)>>

\* A booking as create_booking and update_booking_cost leave it.
StoredBooking(id, totalCost, t) ==
    ServiceBooking([name |-> "Ann", email |-> "ann@x.com",
                    serviceType |-> "residential-moving", currentAddress |-> "1 Main St",
                    totalCost |-> totalCost], id, t)

\* The costs of the first stored booking: none entered, or 1000.
LedgerCosts == {None, 1000}

\* Payments as create_payment stored them, with the day they were logged.
LedgerPayments ==
    {[body |-> [bookingId |-> LedgerBookingIds[1], amount |-> 200,
                paymentType |-> "deposit", paymentMethod |-> "cash"], t |-> 1],
     [body |-> [bookingId |-> LedgerBookingIds[1], amount |-> 50,
                paymentType |-> "refund", paymentMethod |-> "cash"], t |-> 1],
     [body |-> [bookingId |-> LedgerBookingIds[1], amount |-> 1000,
                paymentType |-> "full", paymentMethod |-> "cash"], t |-> 1 - 10],
     [body |-> [bookingId |-> LedgerBookingIds[2], amount |-> 75,
                paymentType |-> "partial", paymentMethod |-> "cash"], t |-> 1 - 10]}

\* The payment documents of a sequence of logged payments.
LedgerDocs(entries) ==
    [i \in 1 .. Len(entries) |-> Payment(entries[i].body, uuid4(100 + i, 0), entries[i].t)]

\* A ledger of n deposits of 1 against the first booking.
LongLedger(n) ==
    [i \in 1 .. n |->
        Payment([bookingId |-> LedgerBookingIds[1], amount |-> 1,
                 paymentType |-> "deposit", paymentMethod |-> "cash"],
                uuid4(100 + i, 0), 1)]

\* The stored ledgers: every sequence of at most MaxLedger logged payments,
\* and ledgers as long as, and one longer than, what get_booking_details reads.
Ledgers ==
    {LedgerDocs(e) : e \in UNION {[1 .. n -> LedgerPayments] : n \in 0 .. MaxLedger}}
    \cup {LongLedger(DetailsListLength), LongLedger(DetailsListLength + 1)}

InitLedger ==
    /\ contacts = <<>>
    /\ bookings \in {<<StoredBooking(LedgerBookingIds[1], c, 1),
                       StoredBooking(LedgerBookingIds[2], 50, 1 - 10)>> : c \in LedgerCosts}
    /\ payments \in Ledgers
    /\ tasks = <<>>
    /\ chat_messages = <<>>
    /\ chat_sessions = <<>>
    /\ now = 1
    /\ rq = [r \in Requests |-> Idle]
    /\ reply = [op |-> "none", code |-> 0]

\* The length given to to_list by get_revenue_summary.
RevenueListLength == 10000

\* parse_datetime: the stored instant; the current time for a missing one.
parse_datetime(date_str, t) == IF date_str = None THEN t ELSE date_str

\* now.replace(day=1, hour=0, ...): the first day of the month of day t.
first_of_month(t) == ((t - 1) \div DaysPerMonth) * DaysPerMonth + 1

\* (first_of_month - timedelta(days=1)).replace(day=1)
first_of_last_month(t) == first_of_month(first_of_month(t) - timedelta(1))

\* The documents created from day lo on and before day hi.
created_between(docs, lo, hi, t) ==
    LET Test(d) == parse_datetime(d.createdAt, t) >= lo /\ parse_datetime(d.createdAt, t) < hi
    IN  SelectSeq(docs, Test)

\* round(num / den, 0) of python: to the nearest integer, halves to even.
round_half_even(num, den) ==
    LET q == num \div den
        rest == num - q * den
    IN  IF 2 * rest < den THEN q
        ELSE IF 2 * rest > den THEN q + 1
        ELSE IF q % 2 = 0 THEN q ELSE q + 1

\* growth_percentage, rounded to one decimal and counted in tenths of a
\* percent.
growth_percentage(monthly_gross, last_month_gross) ==
    IF last_month_gross > 0
    THEN round_half_even((monthly_gross - last_month_gross) * 1000, last_month_gross)
    ELSE IF monthly_gross > 0 THEN 1000 ELSE 0

\* sum(b.get(field, 0) or 0 for b in bookings)
RECURSIVE sum_field(_, _)
sum_field(docs, field) ==
    IF docs = <<>> THEN 0 ELSE Head(docs)[field] + sum_field(Tail(docs), field)

\* mutant: the balances are added up whatever their sign
RECURSIVE outstanding_balance_signed(_, _)
outstanding_balance_signed(all_bookings, all_payments) ==
    IF all_bookings = <<>> THEN 0
    ELSE LET booking == Head(all_bookings)
             booking_payments == find(all_payments, [bookingId |-> booking.id])
             balance == booking.totalCost - sum_amounts(booking_payments, FALSE)
                        + sum_amounts(booking_payments, TRUE)
         IN  (IF booking.totalCost > 0 THEN balance ELSE 0)
             + outstanding_balance_signed(Tail(all_bookings), all_payments)

\* The loop over bookings_with_cost: the positive balances added up.
RECURSIVE outstanding_balance(_, _)
outstanding_balance(all_bookings, all_payments) ==
    IF all_bookings = <<>> THEN 0
    ELSE LET booking == Head(all_bookings)
             booking_payments == find(all_payments, [bookingId |-> booking.id])
             balance == booking.totalCost - sum_amounts(booking_payments, FALSE)
                        + sum_amounts(booking_payments, TRUE)
         IN  (IF booking.totalCost > 0 /\ balance > 0 THEN balance ELSE 0)
             + outstanding_balance(Tail(all_bookings), all_payments)

\* The summary get_revenue_summary returns, computed at time t.
revenue_summary(all_payments, all_bookings, t) ==
    LET this_month_payments == created_between(all_payments, first_of_month(t), t + 1, t)
        this_month_bookings == created_between(all_bookings, first_of_month(t), t + 1, t)
        last_month_payments ==
            created_between(all_payments, first_of_last_month(t), first_of_month(t), t)
        gross_revenue == sum_amounts(all_payments, FALSE)
        total_refunds == sum_amounts(all_payments, TRUE)
        total_contractor_costs == sum_field(all_bookings, "contractorCost")
        monthly_gross == sum_amounts(this_month_payments, FALSE)
        monthly_refunds == sum_amounts(this_month_payments, TRUE)
        monthly_contractor_costs == sum_field(this_month_bookings, "contractorCost")
        last_month_gross == sum_amounts(last_month_payments, FALSE)
    IN  [grossRevenue |-> gross_revenue - total_refunds,
         totalContractorCosts |-> total_contractor_costs,
         netRevenue |-> gross_revenue - total_refunds - total_contractor_costs,
         monthlyGrossRevenue |-> monthly_gross - monthly_refunds,
         monthlyContractorCosts |-> monthly_contractor_costs,
         monthlyNetRevenue |-> monthly_gross - monthly_refunds - monthly_contractor_costs,
         lastMonthRevenue |-> last_month_gross,
         growthPercentage |-> growth_percentage(monthly_gross, last_month_gross),
         outstandingBalance |-> outstanding_balance(all_bookings, all_payments),
         totalLaborHours |-> sum_field(all_bookings, "laborHours"),
         monthlyLaborHours |-> sum_field(this_month_bookings, "laborHours"),
         lastUpdated |-> t]

\* get_revenue_summary: the time is read, then find of all payments.
get_revenue_summary_payments(r) ==
    /\ Arrives(r)
    /\ rq' = [rq EXCEPT ![r] = [op |-> "get_revenue_summary", pc |-> "bookings",
                                now |-> now,
                                all_payments |-> to_list(payments, RevenueListLength)]]
    /\ UNCHANGED <<contacts, bookings, payments, tasks, chat_messages, chat_sessions, now,
                   reply>>

\* get_revenue_summary: find of all bookings, the summary and the reply.
get_revenue_summary_bookings(r) ==
    /\ At(r, "get_revenue_summary", "bookings")
    /\ rq' = [rq EXCEPT ![r] = Done]
    /\ reply' = [op |-> "get_revenue_summary", code |-> 200,
                 summary |-> revenue_summary(rq[r].all_payments,
                                             to_list(bookings, RevenueListLength),
                                             rq[r].now)]
    /\ UNCHANGED <<contacts, bookings, payments, tasks, chat_messages, chat_sessions, now>>

\* The reports over the stored ledgers; the day of the ledger is that of Init.
NextReport ==
    \/ \E r \in Requests : get_booking_details_booking(r)
    \/ \E r \in Requests : get_booking_details_payments(r)
    \/ \E r \in Requests : get_booking_details_tasks(r)
    \/ \E r \in Requests : get_revenue_summary_payments(r)
    \/ \E r \in Requests : get_revenue_summary_bookings(r)

SpecReport == InitLedger /\ [][NextReport]_vars

\* Values an admin may send for a cost field, and the bodies of the three
\* single-field updates: the field, or a body without it (get gives None).
CostValues == {0 - 5, 100}
CostBodies(field) == {[f \in {field} |-> v] : v \in CostValues} \cup {EmptyDict}

\* "if total_cost is None or total_cost < 0" does not hold.
cost_valid(cost_data, field) == field \in DOMAIN cost_data /\ cost_data[field] >= 0

\* update_booking_cost, update_booking_contractor_cost and
\* update_booking_labor_hours: 400 for a missing or negative value, else
\* update_one of the field; 404 when no booking matched.
update_booking_field(r, handler, field) ==
    /\ Arrives(r)
    /\ \E booking_id \in BookingIds, cost_data \in CostBodies(field) :
        LET code == IF ~cost_valid(cost_data, field) THEN 400
                    ELSE IF matched_count(bookings, [id |-> booking_id]) = 0 THEN 404
                    ELSE 200
        IN  /\ bookings' = IF code = 400 THEN bookings
                           ELSE update_one(bookings, [id |-> booking_id],
                                           cost_data @@ [updatedAt |-> now])
            /\ reply' = [op |-> handler, code |-> code, id |-> booking_id,
                         body |-> cost_data]
    /\ rq' = [rq EXCEPT ![r] = Done]
    /\ UNCHANGED <<contacts, payments, tasks, chat_messages, chat_sessions, now>>

update_booking_cost(r) == update_booking_field(r, "update_booking_cost", "totalCost")

update_booking_contractor_cost(r) ==
    update_booking_field(r, "update_booking_contractor_cost", "contractorCost")

update_booking_labor_hours(r) ==
    update_booking_field(r, "update_booking_labor_hours", "laborHours")

\* Bodies of PUT /admin/bookings/{id}/financials: any of the three fields.
FinancialBodies ==
    {[totalCost |-> 100], [totalCost |-> 0 - 5], [contractorCost |-> 0 - 5],
     [laborHours |-> 0 - 5], [totalCost |-> 100, contractorCost |-> 100, laborHours |-> 100],
     EmptyDict}

\* update_booking_financials: update_one of the fields given, whatever their
\* values; 404 when no booking matched.
update_booking_financials(r) ==
    /\ Arrives(r)
    /\ \E booking_id \in BookingIds, financial_data \in FinancialBodies :
        /\ bookings' = update_one(bookings, [id |-> booking_id],
                                  financial_data @@ [updatedAt |-> now])
        /\ reply' = [op |-> "update_booking_financials",
                     code |-> IF matched_count(bookings, [id |-> booking_id]) = 0
                              THEN 404 ELSE 200,
                     id |-> booking_id, body |-> financial_data]
    /\ rq' = [rq EXCEPT ![r] = Done]
    /\ UNCHANGED <<contacts, payments, tasks, chat_messages, chat_sessions, now>>

\* The ledger and its reports: payments logged, the cost changed, the
\* booking's details read.
NextFin ==
    \/ \E r \in Requests : create_payment_find(r)
    \/ \E r \in Requests : create_payment_insert(r)
    \/ \E r \in Requests : create_payment_task(r)
    \/ \E r \in Requests : update_booking_cost(r)
    \/ \E r \in Requests : get_booking_details_booking(r)
    \/ \E r \in Requests : get_booking_details_payments(r)
    \/ \E r \in Requests : get_booking_details_tasks(r)

\* Its stored states: the first booking costs 1000 and has a deposit and a
\* refund logged, or as many deposits as get_booking_details reads.
InitFin ==
    /\ InitLedger
    /\ bookings[1].totalCost = 1000
    /\ payments \in {LedgerDocs(<<e1, e2>>) :
                        e1 \in {e \in LedgerPayments : e.body.amount = 200},
                        e2 \in {e \in LedgerPayments : e.body.amount = 50}}
                    \cup {LongLedger(DetailsListLength)}

SpecFin == InitFin /\ [][NextFin]_vars

\* The cost fields of a booking from its creation on.
NextCost ==
    \/ Tick
    \/ \E r \in Requests : create_booking(r)
    \/ \E r \in Requests : update_booking_cost(r)
    \/ \E r \in Requests : update_booking_contractor_cost(r)
    \/ \E r \in Requests : update_booking_labor_hours(r)
    \/ \E r \in Requests : update_booking_financials(r)

SpecCost == Init /\ [][NextCost]_vars

-----------------------------------------------------------------------------
(* Contact-form leads and the two endpoints that set a lead's status.      *)

\* models.ContactStatus
ContactStatus == {"new", "read", "replied"}

\* models.ContactMessage(...), source contact_form.
ContactMessage(kw, id, t) ==
    kw @@ [id |-> id, phone |-> NoneStr, source |-> "contact_form", status |-> "new",
           createdAt |-> t, updatedAt |-> t]

\* Bodies of POST /contacts/ that pass pydantic's ContactMessageCreate.
ContactMessageCreateBodies ==
    {[name |-> "Ann", email |-> "ann@x.com", subject |-> "quote", message |-> "hello"]}

\* create_contact_message: insert_one of the lead, and the reply.
create_contact_message(r) ==
    /\ Arrives(r)
    /\ \E message_data \in ContactMessageCreateBodies :
        /\ contacts' = insert_one(contacts, ContactMessage(message_data, uuid4(r, 1), now))
        /\ reply' = [op |-> "create_contact_message", code |-> 201, id |-> uuid4(r, 1)]
    /\ rq' = [rq EXCEPT ![r] = Done]
    /\ UNCHANGED <<bookings, payments, tasks, chat_messages, chat_sessions, now>>

\* Ids a request may name: the stored leads' and an unknown one (ContactIds).
\* Bodies of PUT /admin/contacts/{id}/status: a status, or none.
StatusBodies ==
    {[status |-> v] : v \in {"new", "read", "replied", "contacted", "archived"}}
    \cup {EmptyDict}

\* admin.update_contact_status: 400 for a status outside the four, else
\* update_one of status and updatedAt; 404 when no lead matched.
admin_update_contact_status(r) ==
    /\ Arrives(r)
    /\ \E contact_id \in ContactIds, status_data \in StatusBodies :
        LET valid == /\ "status" \in DOMAIN status_data
                     /\ status_data.status \in {"new", "read", "replied", "contacted"}
            code == IF ~valid THEN 400
                    ELSE IF matched_count(contacts, [id |-> contact_id]) = 0 THEN 404
                    ELSE 200
        IN  /\ contacts' = IF ~valid THEN contacts
                           ELSE update_one(contacts, [id |-> contact_id],
                                           [status |-> status_data.status,
                                            updatedAt |-> now])
            /\ reply' = [op |-> "admin_update_contact_status", code |-> code,
                         id |-> contact_id, body |-> status_data]
    /\ rq' = [rq EXCEPT ![r] = Done]
    /\ UNCHANGED <<bookings, payments, tasks, chat_messages, chat_sessions, now>>

\* Bodies of PUT /contacts/{id}: ContactMessageUpdate has status:
\* Optional[ContactStatus], so a status, an explicit null (NoneStr), or none.
ContactMessageUpdateBodies ==
    {[status |-> v] :
        v \in {"new", "read", "replied", "contacted", "archived", NoneStr}}
    \cup {EmptyDict}

\* pydantic accepts the body: the status, when given, is null or a
\* ContactStatus.
ContactMessageUpdateValid(body) ==
    "status" \in DOMAIN body => body.status \in ContactStatus \cup {NoneStr}

\* ContactMessage(**contact) validates: status and subject are of their enums.
ContactMessageValid(contact) ==
    /\ contact.status \in ContactStatus
    /\ contact.subject \in {"quote", "booking", "question", "complaint", "compliment",
                            "other"}

\* contacts.update_contact_status: 422 for a body pydantic refuses, else
\* update_one of the fields set in the body (exclude_unset) and updatedAt; 404
\* when no lead matched.
update_contact_status_update(r) ==
    /\ Arrives(r)
    /\ \E contact_id \in ContactIds, update_data \in ContactMessageUpdateBodies :
        IF ~ContactMessageUpdateValid(update_data)
        THEN /\ rq' = [rq EXCEPT ![r] = Done]
             /\ reply' = [op |-> "update_contact_status", code |-> 422,
                          id |-> contact_id, body |-> update_data]
             /\ UNCHANGED contacts
        ELSE /\ contacts' = update_one(contacts, [id |-> contact_id],
                                       update_data @@ [updatedAt |-> now])
             /\ IF matched_count(contacts, [id |-> contact_id]) = 0
                THEN /\ rq' = [rq EXCEPT ![r] = Done]
                     /\ reply' = [op |-> "update_contact_status", code |-> 404,
                                  id |-> contact_id, body |-> update_data]
                ELSE /\ rq' = [rq EXCEPT ![r] = [op |-> "update_contact_status",
                                                 pc |-> "find_one",
                                                 contact_id |-> contact_id,
                                                 update_data |-> update_data]]
                     /\ UNCHANGED reply
    /\ UNCHANGED <<bookings, payments, tasks, chat_messages, chat_sessions, now>>

\* contacts.update_contact_status: find_one of the updated lead and the
\* reply; 500 when the lead read back does not validate as a ContactMessage.
update_contact_status_find(r) ==
    /\ At(r, "update_contact_status", "find_one")
    /\ LET i == FirstIdx(contacts, [id |-> rq[r].contact_id])
       IN  reply' = [op |-> "update_contact_status",
                     code |-> IF i # 0 /\ ContactMessageValid(contacts[i]) THEN 200
                              ELSE 500,
                     id |-> rq[r].contact_id, body |-> rq[r].update_data]
    /\ rq' = [rq EXCEPT ![r] = Done]
    /\ UNCHANGED <<contacts, bookings, payments, tasks, chat_messages, chat_sessions, now>>

NextContact ==
    \/ Tick
    \/ \E r \in Requests : create_contact_message(r)
    \/ \E r \in Requests : admin_update_contact_status(r)
    \/ \E r \in Requests : update_contact_status_update(r)
    \/ \E r \in Requests : update_contact_status_find(r)

SpecContact == Init /\ [][NextContact]_vars

-----------------------------------------------------------------------------
(* The dashboard summary.                                                  *)

\* The stored state after one chat message "a@b.com" of session s1 has been
\* handled: the two messages, the session and its chatbot lead.
InitChatted ==
    LET info == current_message_info(
                    get_session_contact_info(
                        <<ChatMessage(uuid4(100, 1), "s1", "a@b.com", "user", 1)>>, "s1"),
                    "a@b.com")
    IN  /\ chat_messages = <<ChatMessage(uuid4(100, 1), "s1", "a@b.com", "user", 1),
                             ChatMessage(uuid4(100, 2), "s1", "bot_response", "bot", 1)>>
        /\ chat_sessions = <<session_data("s1", info, 1) @@ [createdAt |-> 1]>>
        /\ contacts = <<contact_data("s1", info, 1)
                        @@ [id |-> uuid4(100, 4), createdAt |-> 1]>>
        /\ bookings = <<>>
        /\ payments = <<>>
        /\ tasks = <<>>
        /\ now = 1
        /\ rq = [r \in Requests |-> Idle]
        /\ reply = [op |-> "none", code |-> 0]

\* The counts of get_dashboard_stats after the first, in the order of their
\* awaits.
DashboardCounts ==
    <<"chatbot_quotes", "all_contacts", "total_bookings", "pending_contacts",
      "pending_chatbot", "pending_bookings", "recent_contacts", "recent_bookings",
      "recent_chatbot">>

\* count_documents of the named count; week_ago is now - 7 days.
dashboard_count(name, t) ==
    LET week_ago == t - timedelta(7)
        Count(coll, Test(_)) == Cardinality({i \in 1 .. Len(coll) : Test(coll[i])})
        Chatbot(d) == d.source = "chatbot"
        All(d) == TRUE
        PendingContact(d) == d.status = "new" /\ d.source # "chatbot"
        PendingChatbot(d) == d.status = "new" /\ d.source = "chatbot"
        PendingBooking(d) == d.status = "pending"
        RecentContact(d) == d.createdAt >= week_ago /\ d.source # "chatbot"
        RecentBooking(d) == d.createdAt >= week_ago
        RecentChatbot(d) == d.createdAt >= week_ago /\ d.source = "chatbot"
    IN  CASE name = "chatbot_quotes" -> Count(contacts, Chatbot)
          [] name = "all_contacts" -> Count(contacts, All)
          [] name = "total_bookings" -> Count(bookings, All)
          [] name = "pending_contacts" -> Count(contacts, PendingContact)
          [] name = "pending_chatbot" -> Count(contacts, PendingChatbot)
          [] name = "pending_bookings" -> Count(bookings, PendingBooking)
          [] name = "recent_contacts" -> Count(contacts, RecentContact)
          [] name = "recent_bookings" -> Count(bookings, RecentBooking)
          [] name = "recent_chatbot" -> Count(contacts, RecentChatbot)

\* get_dashboard_stats: count_documents of the chatbot leads.
get_dashboard_stats_first(r) ==
    /\ Arrives(r)
    /\ rq' = [rq EXCEPT ![r] =
                [op |-> "get_dashboard_stats", pc |-> 2,
                 counts |-> <<dashboard_count(DashboardCounts[1], now)>>]]
    /\ UNCHANGED <<contacts, bookings, payments, tasks, chat_messages, chat_sessions, now,
                   reply>>

\* get_dashboard_stats: the next count_documents, up to the last but one.
get_dashboard_stats_count(r) ==
    /\ rq[r].op = "get_dashboard_stats"
    /\ rq[r].pc < Len(DashboardCounts)
    /\ rq' = [rq EXCEPT ![r] =
                [op |-> "get_dashboard_stats", pc |-> rq[r].pc + 1,
                 counts |-> Append(rq[r].counts,
                                   dashboard_count(DashboardCounts[rq[r].pc], now))]]
    /\ UNCHANGED <<contacts, bookings, payments, tasks, chat_messages, chat_sessions, now,
                   reply>>

\* get_dashboard_stats: the last count_documents and the reply;
\* total_contacts is all_contacts - chatbot_quotes.
get_dashboard_stats_last(r) ==
    /\ rq[r].op = "get_dashboard_stats"
    /\ rq[r].pc = Len(DashboardCounts)
    /\ LET counts == Append(rq[r].counts,
                            dashboard_count(DashboardCounts[rq[r].pc], now))
       IN  reply' = [op |-> "get_dashboard_stats", code |-> 200,
                     total_contacts |-> counts[2] - counts[1],
                     total_bookings |-> counts[3], chatbot_quotes |-> counts[1],
                     pending_contacts |-> counts[4], pending_bookings |-> counts[6],
                     pending_chatbot |-> counts[5], recent_contacts |-> counts[7],
                     recent_bookings |-> counts[8], recent_chatbot |-> counts[9],
                     last_updated |-> now]
    /\ rq' = [rq EXCEPT ![r] = Done]
    /\ UNCHANGED <<contacts, bookings, payments, tasks, chat_messages, chat_sessions, now>>

\* The dashboard next to requests that add and delete leads.
NextDash ==
    \/ \E r \in Requests : get_dashboard_stats_first(r)
    \/ \E r \in Requests : get_dashboard_stats_count(r)
    \/ \E r \in Requests : get_dashboard_stats_last(r)
    \/ \E r \in Requests : create_contact_message(r)
    \/ \E r \in Requests : clear_chat_session_messages(r)
    \/ \E r \in Requests : clear_chat_session_session(r)
    \/ \E r \in Requests : clear_chat_session_contact(r)

SpecDash == InitChatted /\ [][NextDash]_vars

-----------------------------------------------------------------------------
(* Workflow tasks generated by a booking status change.                    *)

task_templates ==
    [pending |-> [title |-> "Review and confirm new booking",
                  taskType |-> "confirmation", priority |-> "high", days_due |-> 1],
     confirmed |-> [title |-> "Pre-service call - confirm details",
                    taskType |-> "pre_move_check", priority |-> "medium", days_due |-> 2],
     completed |-> [title |-> "Post-service follow-up call",
                    taskType |-> "post_service_followup", priority |-> "low",
                    days_due |-> 3]]

template_of_pending(booking_status) ==
    IF booking_status \in DOMAIN task_templates THEN task_templates["pending"]
    ELSE EmptyDict

\* task_templates.get(booking_status): a dict without keys when there is none.
template(booking_status) ==
    IF booking_status \in DOMAIN task_templates THEN task_templates[booking_status]
    ELSE EmptyDict

\* generate_booking_tasks: the tasks collection after the call at time t,
\* where id is the identifier drawn for the task.  Dates are stored as the
\* ISO text of their instant, which the model keeps as the instant.
generate_booking_tasks(booking_id, booking_status, id, t) ==
    IF template(booking_status) # EmptyDict
    THEN insert_one(tasks,
            Task([bookingId |-> booking_id,
                  title |-> template(booking_status).title,
                  taskType |-> template(booking_status).taskType,
                  priority |-> template(booking_status).priority,
                  dueDate |-> t + timedelta(template(booking_status).days_due),
                  autoGenerated |-> TRUE], id, t))
    ELSE tasks

\* The statuses update_booking_status_with_tasks accepts.
WorkflowStatuses == {"pending", "confirmed", "completed", "cancelled"}

\* Bodies of PUT /admin/bookings/{id}/status-with-tasks: any dict; "archived"
\* is not accepted and NoneStr is a body without "status".
StatusWithTasksBodies == [status : WorkflowStatuses \cup {"archived", NoneStr}]

\* update_booking_status_with_tasks, up to the update of the booking.
update_booking_status_with_tasks_update(r) ==
    /\ Arrives(r)
    /\ \E booking_id \in BookingIds, status_data \in StatusWithTasksBodies :
        LET new_status == status_data.status
            filter == [id |-> booking_id]
        IN  IF new_status \notin WorkflowStatuses
            THEN /\ rq' = [rq EXCEPT ![r] = Done]
                 /\ reply' = [op |-> "update_booking_status_with_tasks", code |-> 400,
                              id |-> booking_id, status |-> new_status]
                 /\ UNCHANGED bookings
            ELSE /\ bookings' = update_one(bookings, filter,
                                    [status |-> new_status, updatedAt |-> now])
                 /\ IF matched_count(bookings, filter) = 0
                    THEN /\ rq' = [rq EXCEPT ![r] = Done]
                         /\ reply' = [op |-> "update_booking_status_with_tasks",
                                      code |-> 404, id |-> booking_id,
                                      status |-> new_status]
                    ELSE /\ rq' = [rq EXCEPT ![r] =
                                    [op |-> "update_booking_status_with_tasks",
                                     pc |-> "generate_booking_tasks",
                                     booking_id |-> booking_id,
                                     new_status |-> new_status]]
                         /\ UNCHANGED reply
    /\ UNCHANGED <<contacts, payments, tasks, chat_messages, chat_sessions, now>>

\* update_booking_status_with_tasks: generate_booking_tasks and the reply.
update_booking_status_with_tasks_generate(r) ==
    /\ At(r, "update_booking_status_with_tasks", "generate_booking_tasks")
    /\ tasks' = generate_booking_tasks(rq[r].booking_id, rq[r].new_status, uuid4(r, 1), now)
    /\ rq' = [rq EXCEPT ![r] = Done]
    /\ reply' = [op |-> "update_booking_status_with_tasks", code |-> 200,
                 id |-> rq[r].booking_id, status |-> rq[r].new_status]
    /\ UNCHANGED <<contacts, bookings, payments, chat_messages, chat_sessions, now>>

NextWorkflow ==
    \/ Tick
    \/ \E r \in Requests : create_booking(r)
    \/ \E r \in Requests : update_booking_status_with_tasks_update(r)
    \/ \E r \in Requests : update_booking_status_with_tasks_generate(r)

SpecWorkflow == Init /\ [][NextWorkflow]_vars

-----------------------------------------------------------------------------
(* The data reset.                                                         *)

\* Bodies of DELETE /admin/reset-database: the phrase, another text, and a
\* body without "confirmation".
ConfirmationBodies == [confirmation : {"DELETE ALL DATA", "delete all data", NoneStr}]

\* The collections reset_database counts and deletes, in its order.
ResetCollections == <<"contacts", "bookings", "payments", "tasks">>

\* The collection of the given name.
Collection(name) ==
    CASE name = "contacts" -> contacts
      [] name = "bookings" -> bookings
      [] name = "payments" -> payments
      [] name = "tasks" -> tasks

\* reset_database: the check of the phrase (400) and the first count.
reset_database_first(r) ==
    /\ Arrives(r)
    /\ \E confirmation \in ConfirmationBodies :
        IF confirmation.confirmation # "DELETE ALL DATA"
        THEN /\ rq' = [rq EXCEPT ![r] = Done]
             /\ reply' = [op |-> "reset_database", code |-> 400,
                          confirmation |-> confirmation.confirmation]
        ELSE /\ rq' = [rq EXCEPT ![r] =
                        [op |-> "reset_database", pc |-> 2,
                         counts |-> <<count_documents(contacts, EmptyDict)>>,
                         deleted |-> <<>>]]
             /\ UNCHANGED reply
    /\ UNCHANGED <<contacts, bookings, payments, tasks, chat_messages, chat_sessions, now>>

\* reset_database: the counts of bookings, payments and tasks.
reset_database_count(r) ==
    /\ rq[r].op = "reset_database"
    /\ rq[r].pc \in 2 .. Len(ResetCollections)
    /\ rq' = [rq EXCEPT ![r].pc = @ + 1,
                        ![r].counts =
                            Append(@, count_documents(Collection(ResetCollections[rq[r].pc]),
                                                      EmptyDict))]
    /\ UNCHANGED <<contacts, bookings, payments, tasks, chat_messages, chat_sessions, now,
                   reply>>

\* reset_database: delete_many({}) on contacts, bookings and payments; the
\* request keeps the deleted_count of each call, which the handler ignores.
reset_database_delete(r) ==
    /\ rq[r].op = "reset_database"
    /\ rq[r].pc \in (Len(ResetCollections) + 1) .. (2 * Len(ResetCollections) - 1)
    /\ LET name == ResetCollections[rq[r].pc - Len(ResetCollections)]
       IN  /\ contacts' = IF name = "contacts" THEN <<>> ELSE contacts
           /\ bookings' = IF name = "bookings" THEN <<>> ELSE bookings
           /\ payments' = IF name = "payments" THEN <<>> ELSE payments
           /\ rq' = [rq EXCEPT ![r].pc = @ + 1,
                               ![r].deleted = Append(@, Len(Collection(name)))]
    /\ UNCHANGED <<tasks, chat_messages, chat_sessions, now, reply>>

\* reset_database: delete_many({}) on tasks and the reply with the counts;
\* deleted_count, which the handler does not return, is kept beside them.
reset_database_last(r) ==
    /\ rq[r].op = "reset_database"
    /\ rq[r].pc = 2 * Len(ResetCollections)
    /\ tasks' = <<>>
    /\ rq' = [rq EXCEPT ![r] = Done]
    /\ reply' = [op |-> "reset_database", code |-> 200, deleted |-> rq[r].counts,
                 total_deleted |-> rq[r].counts[1] + rq[r].counts[2] + rq[r].counts[3]
                                   + rq[r].counts[4],
                 deleted_count |-> Append(rq[r].deleted, Len(tasks))]
    /\ UNCHANGED <<contacts, bookings, payments, chat_messages, chat_sessions, now>>

\* The reset next to the requests that fill the four collections.
NextReset ==
    \/ \E r \in Requests : create_contact_message(r)
    \/ \E r \in Requests : create_booking(r)
    \/ \E r \in Requests : create_task(r)
    \/ \E r \in Requests : create_payment_find(r)
    \/ \E r \in Requests : create_payment_insert(r)
    \/ \E r \in Requests : create_payment_task(r)
    \/ \E r \in Requests : reset_database_first(r)
    \/ \E r \in Requests : reset_database_count(r)
    \/ \E r \in Requests : reset_database_delete(r)
    \/ \E r \in Requests : reset_database_last(r)

SpecReset == Init /\ [][NextReset]_vars

-----------------------------------------------------------------------------
(* Admin authentication.                                                   *)

ADMIN_USERNAME == "admin"
ADMIN_PASSWORD == "admin123"
JWT_SECRET == "swift-move-admin-secret-key-2024"

\* timedelta(hours=24) of create_access_token, on the clock of days.
TokenLifetime == 1

\* A JSON number in a request body, where a string is expected.
JsonNumber == "json number 123"

\* jwt.encode(payload, secret): the payload and the key that signed it.
jwt_encode(username, exp, secret) ==
    [kind |-> "jwt", username |-> username, exp |-> exp, secret |-> secret]

create_access_token(username, t) == jwt_encode(username, t + TokenLifetime, JWT_SECRET)

\* What a request may carry as credentials: no Authorization header, a
\* bearer string that is no JWT, and JWTs of any user, expiry and key.
Credentials ==
    {[kind |-> k, username |-> NoneStr, exp |-> None, secret |-> NoneStr] :
        k \in {"missing", "garbage"}}
    \cup {jwt_encode(u, e, k) : u \in {ADMIN_USERNAME, "mallory"},
                                e \in 1 .. (MaxTime + TokenLifetime),
                                k \in {JWT_SECRET, "guess"}}

\* verify_token at time t: jwt.decode raises for a string that is no JWT, a
\* signature of another key, and an exp that is not after t.
verify_token(token, t) ==
    IF token.kind # "jwt" \/ token.secret # JWT_SECRET \/ token.exp <= t THEN NoneStr
    ELSE IF token.username # ADMIN_USERNAME THEN NoneStr
    ELSE token.username

\* Depends(get_current_admin) of an admin operation: HTTPBearer refuses a
\* request without Authorization header (403, or 401 in later versions of
\* the framework), get_current_admin one whose token does not verify (401).
get_current_admin(r) ==
    /\ Arrives(r)
    /\ \E credentials \in Credentials :
        IF credentials.kind = "missing"
        THEN /\ rq' = [rq EXCEPT ![r] = Done]
             /\ \E code \in {401, 403} :
                    reply' = [op |-> "get_current_admin", code |-> code,
                              credentials |-> credentials]
        ELSE IF verify_token(credentials, now) = NoneStr
        THEN /\ rq' = [rq EXCEPT ![r] = Done]
             /\ reply' = [op |-> "get_current_admin", code |-> 401,
                          credentials |-> credentials]
        ELSE /\ rq' = [rq EXCEPT ![r] =
                        [op |-> "get_current_admin", pc |-> "handler",
                         credentials |-> credentials,
                         current_admin |-> verify_token(credentials, now)]]
             /\ UNCHANGED reply
    /\ UNCHANGED <<contacts, bookings, payments, tasks, chat_messages, chat_sessions, now>>

\* An admin operation behind the dependency: POST /admin/tasks.
admin_create_task(r) ==
    /\ At(r, "get_current_admin", "handler")
    /\ create_task_handler(r)

\* Bodies of POST /admin/login: any JSON object; NoneStr is a missing key.
LoginBodies ==
    [username : {ADMIN_USERNAME, "mallory", NoneStr},
     password : {ADMIN_PASSWORD, "letmein", JsonNumber, NoneStr}]

\* admin_login: 400 without username or password; password.encode() raises
\* for a password that is no string, which nothing catches (500).
admin_login(r) ==
    /\ Arrives(r)
    /\ \E credentials \in LoginBodies :
        LET code == IF credentials.username = NoneStr \/ credentials.password = NoneStr
                    THEN 400
                    ELSE IF credentials.password = JsonNumber THEN 500
                    ELSE IF credentials.username = ADMIN_USERNAME
                            /\ credentials.password = ADMIN_PASSWORD
                    THEN 200 ELSE 401
        IN  reply' = [op |-> "admin_login", code |-> code, credentials |-> credentials,
                      access_token |-> IF code = 200
                                       THEN create_access_token(credentials.username, now)
                                       ELSE jwt_encode(NoneStr, None, NoneStr)]
    /\ rq' = [rq EXCEPT ![r] = Done]
    /\ UNCHANGED <<contacts, bookings, payments, tasks, chat_messages, chat_sessions, now>>

NextAuth ==
    \/ Tick
    \/ \E r \in Requests : admin_login(r)
    \/ \E r \in Requests : get_current_admin(r)
    \/ \E r \in Requests : admin_create_task(r)

SpecAuth == Init /\ [][NextAuth]_vars

-----------------------------------------------------------------------------
(* The task listing and the display fields of a task.  serviceContext is   *)
(* kept as the tuple of the texts it is formatted from, <<>> for None.      *)

\* sort("createdAt", -1): newest first; documents of equal createdAt stay in
\* stored order.
sort_created_desc(docs) ==
    LET Rank(i) ==
            Cardinality({j \in 1 .. Len(docs) :
                \/ docs[j].createdAt > docs[i].createdAt
                \/ docs[j].createdAt = docs[i].createdAt /\ j < i}) + 1
    IN  [k \in 1 .. Len(docs) |-> docs[CHOOSE i \in 1 .. Len(docs) : Rank(i) = k]]

\* The display fields create_task and get_all_tasks read from a booking and
\* from a contact.
booking_display(booking) ==
    [contactName |-> booking.name, contactEmail |-> booking.email,
     serviceType |-> booking.serviceType,
     serviceContext |-> <<booking.serviceType, booking.currentAddress>>]

contact_display(contact) ==
    [contactName |-> contact.name, contactEmail |-> contact.email,
     serviceContext |-> <<contact.message>>]

\* Bodies of POST /admin/tasks that refer to a booking.
TaskCreateForBookingBodies ==
    [bookingId : BookingIds, contactId : {None}, title : {"t2"}, description : {NoneStr},
     taskType : {"follow_up"}, priority : {"low"}, dueDate : {None}]

\* create_task for a body with a bookingId: the find_one of the booking.
create_task_find_booking(r) ==
    /\ Arrives(r)
    /\ \E body \in TaskCreateForBookingBodies :
        rq' = [rq EXCEPT ![r] =
                [op |-> "create_task", pc |-> "insert", body |-> body,
                 display |->
                    IF FirstIdx(bookings, [id |-> body.bookingId]) = 0 THEN EmptyDict
                    ELSE booking_display(bookings[FirstIdx(bookings,
                                                           [id |-> body.bookingId])])]]
    /\ UNCHANGED <<contacts, bookings, payments, tasks, chat_messages, chat_sessions, now,
                   reply>>

\* create_task: the insert of the task with what was read, and the reply.
create_task_insert(r) ==
    /\ At(r, "create_task", "insert")
    /\ tasks' = insert_one(tasks,
            Task(rq[r].display @@ [autoGenerated |-> FALSE] @@ rq[r].body, uuid4(r, 1), now))
    /\ rq' = [rq EXCEPT ![r] = Done]
    /\ reply' = [op |-> "create_task", code |-> 200, taskId |-> uuid4(r, 1)]
    /\ UNCHANGED <<contacts, bookings, payments, chat_messages, chat_sessions, now>>

\* get_all_tasks looks a task up: in bookings (phase 0) when it has a
\* bookingId and no contactName, in contacts (phase 1) when it has a contactId
\* and no contactName.
needs_lookup(task, phase) ==
    /\ task.contactName = NoneStr
    /\ IF phase = 0 THEN task.bookingId # None ELSE task.contactId # None

\* The lookups of the loop are numbered 2 * (i - 1) + phase for task i; the
\* first one still to be made from the given number on, 2 * Len when none.
next_lookup(found, from) ==
    LET Needed == {pos \in from .. (2 * Len(found) - 1) :
                        needs_lookup(found[(pos \div 2) + 1], pos % 2)}
    IN  IF Needed = {} THEN 2 * Len(found)
        ELSE CHOOSE pos \in Needed : \A q \in Needed : pos <= q

\* The task after the find_one of the lookup: unchanged when nothing is found.
enriched(task, phase) ==
    IF phase = 0
    THEN IF FirstIdx(bookings, [id |-> task.bookingId]) = 0 THEN task
         ELSE booking_display(bookings[FirstIdx(bookings, [id |-> task.bookingId])]) @@ task
    ELSE IF FirstIdx(contacts, [id |-> task.contactId]) = 0 THEN task
         ELSE contact_display(contacts[FirstIdx(contacts, [id |-> task.contactId])]) @@ task

\* status_filter of GET /admin/tasks: none, or a status.
StatusFilters == {NoneStr, "all", "pending"}

get_all_tasks_reply(found) == [op |-> "get_all_tasks", code |-> 200, tasks |-> found]

\* get_all_tasks: the find of the tasks; the reply when no task is looked up.
get_all_tasks_find(r) ==
    /\ Arrives(r)
    /\ \E status_filter \in StatusFilters :
        LET query == IF status_filter # NoneStr /\ status_filter # "all"
                     THEN [status |-> status_filter] ELSE EmptyDict
            found == sort_created_desc(find(tasks, query))
        IN  IF next_lookup(found, 0) = 2 * Len(found)
            THEN /\ rq' = [rq EXCEPT ![r] = Done]
                 /\ reply' = get_all_tasks_reply(found)
            ELSE /\ rq' = [rq EXCEPT ![r] = [op |-> "get_all_tasks", pc |-> 0,
                                             tasks |-> found]]
                 /\ UNCHANGED reply
    /\ UNCHANGED <<contacts, bookings, payments, tasks, chat_messages, chat_sessions, now>>

\* get_all_tasks: the next find_one of the loop; the reply after the last.
get_all_tasks_lookup(r) ==
    /\ rq[r].op = "get_all_tasks"
    /\ LET pos == next_lookup(rq[r].tasks, rq[r].pc)
           i == (pos \div 2) + 1
           found == [rq[r].tasks EXCEPT ![i] = enriched(@, pos % 2)]
       IN  IF next_lookup(found, pos + 1) = 2 * Len(found)
           THEN /\ rq' = [rq EXCEPT ![r] = Done]
                /\ reply' = get_all_tasks_reply(found)
           ELSE /\ rq' = [rq EXCEPT ![r] = [op |-> "get_all_tasks", pc |-> pos + 1,
                                            tasks |-> found]]
                /\ UNCHANGED reply
    /\ UNCHANGED <<contacts, bookings, payments, tasks, chat_messages, chat_sessions, now>>

\* Tasks created by hand and by a deposit, and the listing.
NextListing ==
    \/ \E r \in Requests : create_booking(r)
    \/ \E r \in Requests : create_task_find_booking(r)
    \/ \E r \in Requests : create_task_insert(r)
    \/ \E r \in Requests : create_payment_find(r)
    \/ \E r \in Requests : create_payment_insert(r)
    \/ \E r \in Requests : create_payment_task(r)
    \/ \E r \in Requests : get_all_tasks_find(r)
    \/ \E r \in Requests : get_all_tasks_lookup(r)

SpecListing == Init /\ [][NextListing]_vars

-----------------------------------------------------------------------------
(* Properties of the task endpoints.                                       *)

\* Request r is answered in this step.
Answers(r) == rq[r].op # "done" /\ rq'[r].op = "done"

\* This step answers a request of handler o.
Answered(o) == reply'.op = o /\ \E r \in Requests : Answers(r)

\* This step answers a request to change the status of task id.
StatusRequested(id) ==
    /\ Answered("update_task") \/ Answered("transition_task_status")
    /\ reply'.id = id
    /\ reply'.newStatus # NoneStr

\* The transition graph of the task state machine.
GraphEdge(s, t) ==
    \/ s = "pending" /\ t \in {"in_progress", "completed", "cancelled"}
    \/ s = "in_progress" /\ t \in {"completed", "pending", "cancelled"}
    \/ s = "completed" /\ t = "pending"
    \/ s = "cancelled" /\ t = "pending"

\* C5: a request to change a task's status from s to t is applied only when
\* (s, t) is an edge of the transition graph; every other request is refused
\* and leaves the tasks unchanged, whichever endpoint receives it.
C5_OnlyGraphEdgesApplied ==
    [][\A i \in 1 .. Len(tasks) :
          (StatusRequested(tasks[i].id) /\ ~GraphEdge(tasks[i].status, reply'.newStatus))
              => (reply'.code # 200 /\ tasks' = tasks)]_vars

\* C6: an applied status change stamps the lifecycle timestamps by its target
\* (in_progress: startedAt = now; completed: completedAt = now; pending: both
\* None), and no other step on a task changes startedAt or completedAt.
C6_StampsOnlyOnStatusChange ==
    [][\A i \in 1 .. Len(tasks), j \in 1 .. Len(tasks') :
          tasks[i].id = tasks'[j].id =>
              IF StatusRequested(tasks[i].id) /\ reply'.code = 200
              THEN /\ tasks'[j].status = reply'.newStatus
                   /\ reply'.newStatus = "in_progress" => tasks'[j].startedAt = now
                   /\ reply'.newStatus = "completed" => tasks'[j].completedAt = now
                   /\ reply'.newStatus = "pending" =>
                          tasks'[j].startedAt = None /\ tasks'[j].completedAt = None
              ELSE /\ tasks'[j].startedAt = tasks[i].startedAt
                   /\ tasks'[j].completedAt = tasks[i].completedAt]_vars

\* A started task was sent back to pending: both of its stamps are None again.
C6_Witness ==
    /\ reply.op = "transition_task_status" /\ reply.code = 200
    /\ reply.previousStatus = "in_progress" /\ reply.newStatus = "pending"
    /\ \E i \in 1 .. Len(tasks) :
          /\ tasks[i].id = reply.id
          /\ tasks[i].status = "pending"
          /\ tasks[i].startedAt = None /\ tasks[i].completedAt = None

\* C7: a step that takes a task from pending straight to completed leaves
\* completedAt set and startedAt None; a step from in_progress to completed
\* leaves completedAt set and startedAt as it was set on entering in_progress.
C7_DirectCompletionKeepsStartedAt ==
    [][\A i \in 1 .. Len(tasks), j \in 1 .. Len(tasks') :
          (tasks[i].id = tasks'[j].id /\ tasks'[j].status = "completed") =>
              /\ tasks[i].status = "pending" =>
                     tasks'[j].completedAt # None /\ tasks'[j].startedAt = None
              /\ tasks[i].status = "in_progress" =>
                     /\ tasks'[j].completedAt # None
                     /\ tasks[i].startedAt # None
                     /\ tasks'[j].startedAt = tasks[i].startedAt]_vars

\* A task started on one day was completed by a transition on a later day.
C7_Witness ==
    /\ reply.op = "transition_task_status" /\ reply.code = 200
    /\ reply.previousStatus = "in_progress" /\ reply.newStatus = "completed"
    /\ \E i \in 1 .. Len(tasks) :
          /\ tasks[i].id = reply.id
          /\ tasks[i].status = "completed"
          /\ tasks[i].startedAt # None
          /\ tasks[i].startedAt < tasks[i].completedAt

-----------------------------------------------------------------------------
(* Properties of the payment endpoints.                                    *)

\* No collection other than payments and tasks changes in this step.
OnlyLedgerAndTasksChange ==
    UNCHANGED <<contacts, bookings, chat_messages, chat_sessions>>

\* The last document of a collection.
Last(coll) == coll[Len(coll)]

\* C8: a record_payment that succeeds adds exactly one Payment; for a deposit
\* it also adds exactly one Task, for the same booking, of type
\* collect_payment, priority medium, pending, auto-generated and due three
\* days after its creation; for the other types it adds no Task.
C8_DepositAddsOneTask ==
    [][\A r \in Requests :
          /\ (rq[r].op = "create_payment" /\ rq[r].pc = "insert_payment"
                  /\ rq'[r] # rq[r]) =>
                /\ Len(payments') = Len(payments) + 1
                /\ SubSeq(payments', 1, Len(payments)) = payments
                /\ Last(payments').bookingId = rq[r].body.bookingId
                /\ Last(payments').amount = rq[r].body.amount
                /\ Last(payments').paymentType = rq[r].body.paymentType
                /\ tasks' = tasks
                /\ OnlyLedgerAndTasksChange
                /\ rq[r].body.paymentType = "deposit" <=> rq'[r].pc = "insert_task"
                /\ rq[r].body.paymentType # "deposit" <=>
                       (rq'[r].op = "done" /\ reply'.code = 200)
          /\ (rq[r].op = "create_payment" /\ rq[r].pc = "insert_task"
                  /\ rq'[r] # rq[r]) =>
                /\ rq[r].body.paymentType = "deposit"
                /\ rq'[r].op = "done" /\ reply'.code = 200
                /\ payments' = payments
                /\ Len(tasks') = Len(tasks) + 1
                /\ SubSeq(tasks', 1, Len(tasks)) = tasks
                /\ Last(tasks').bookingId = rq[r].body.bookingId
                /\ Last(tasks').taskType = "collect_payment"
                /\ Last(tasks').priority = "medium"
                /\ Last(tasks').status = "pending"
                /\ Last(tasks').autoGenerated = TRUE
                /\ Last(tasks').dueDate = Last(tasks').createdAt + 3
                /\ Last(tasks').createdAt = now
                /\ OnlyLedgerAndTasksChange
          /\ (Answers(r) /\ reply'.op = "create_payment" /\ reply'.code = 200) =>
                rq[r].op = "create_payment"
                    /\ rq[r].pc = (IF reply'.body.paymentType = "deposit"
                                   THEN "insert_task" ELSE "insert_payment")]_vars

\* A deposit was answered 200 on a later day than its booking was made, and
\* its payment and its task are stored.
C8_Witness ==
    /\ reply.op = "create_payment" /\ reply.code = 200
    /\ reply.body.paymentType = "deposit"
    /\ \E i \in 1 .. Len(payments) : payments[i].id = reply.paymentId
    /\ \E i \in 1 .. Len(tasks), j \in 1 .. Len(bookings) :
          /\ tasks[i].bookingId = reply.body.bookingId
          /\ tasks[i].taskType = "collect_payment"
          /\ bookings[j].id = tasks[i].bookingId
          /\ bookings[j].createdAt < tasks[i].createdAt

\* Request r arrives in this step as a create_payment naming booking id b.
PaymentArrives(r, b) ==
    /\ rq[r].op = "idle"
    /\ \/ rq'[r].op = "create_payment" /\ rq'[r].body.bookingId = b
       \/ rq'[r].op = "done" /\ reply'.op = "create_payment" /\ reply'.body.bookingId = b

\* C9: a record_payment naming a booking id that no Booking has is answered
\* NotFound and changes no collection, whatever its type; a delete_payment
\* naming an id that no Payment has is answered NotFound and leaves the
\* payments as they are.
C9_NotFoundChangesNothing ==
    [][\A r \in Requests :
          /\ \A b \in BookingIds :
                (PaymentArrives(r, b) /\ \A i \in 1 .. Len(bookings) : bookings[i].id # b)
                    => /\ rq'[r].op = "done" /\ reply'.code = 404
                       /\ UNCHANGED <<contacts, bookings, payments, tasks, chat_messages,
                                      chat_sessions>>
          /\ (Answers(r) /\ reply'.op = "delete_payment"
                  /\ \A i \in 1 .. Len(payments) : payments[i].id # reply'.id)
                => reply'.code = 404 /\ payments' = payments]_vars

\* A deposit for a booking that does not exist was answered 404 while a
\* booking and a payment are stored.
C9_Witness ==
    /\ reply.op = "create_payment" /\ reply.code = 404
    /\ reply.body.paymentType = "deposit"
    /\ \A i \in 1 .. Len(bookings) : bookings[i].id # reply.body.bookingId
    /\ Len(bookings) > 0 /\ Len(payments) > 0
    /\ Len(tasks) = 0

\* C10: every stored Payment has amount >= 0 (a record_payment with a
\* negative amount is refused and stores nothing).
C10_AmountsNonNegative ==
    \A i \in 1 .. Len(payments) : payments[i].amount >= 0

-----------------------------------------------------------------------------
(* Properties of the lead conversion and of the chatbot's leads.           *)

\* C1: at any time at most one Booking names a given lead in its
\* convertedFromChatbot, whatever the interleaving of the conversions.
C1_OneBookingPerLead ==
    \A i, j \in 1 .. Len(bookings) :
        (/\ bookings[i].convertedFromChatbot # None
         /\ bookings[i].convertedFromChatbot = bookings[j].convertedFromChatbot) => i = j

\* A conversion of the lead has been answered with success.
EarlierConverted(quote_id) ==
    \E r \in Requests :
        /\ rq[r].op = "done"
        /\ "quote_id" \in DOMAIN rq[r]
        /\ rq[r].quote_id = quote_id
        /\ rq[r].code = 200

\* The chatbot lead is stored.
LeadStored(quote_id) == FirstIdx(contacts, [id |-> quote_id, source |-> "chatbot"]) # 0

\* Request r calls the conversion endpoint in this step.
ConvertCalled(r) ==
    /\ rq[r].op = "idle"
    /\ rq'[r].op \in {"convert_chatbot_to_booking", "done"}
    /\ "quote_id" \in DOMAIN rq'[r]

\* Request r, a conversion, looks for a booking of the lead in this step.
ConvertChecks(r) ==
    /\ At(r, "convert_chatbot_to_booking", "find_booking")
    /\ rq'[r] # rq[r]

\* C2: a conversion called after a conversion of the same lead has succeeded
\* inserts no Booking and no Task and leaves the Lead as it is, and, the lead
\* being stored, is answered 400 (Conflict) at its look for a booking of the
\* lead; the only other answer is the 500 of a storage call that raised.
C2_SecondConvertConflicts ==
    [][\A r \in Requests :
        /\ (ConvertCalled(r) /\ EarlierConverted(rq'[r].quote_id)) =>
              /\ UNCHANGED <<contacts, bookings, tasks, payments>>
              /\ (LeadStored(rq'[r].quote_id) /\ rq'[r].op = "done") => rq'[r].code = 500
        /\ (ConvertChecks(r) /\ EarlierConverted(rq[r].quote_id)) =>
              /\ UNCHANGED <<contacts, bookings, tasks, payments>>
              /\ rq'[r].op = "done"
              /\ rq'[r].code \in {400, 500}
      ]_vars

\* A second conversion of a converted lead was just answered 400, with one
\* booking and one task stored and the lead marked as converted to it.
C2_Witness ==
    /\ reply.op = "convert_chatbot_to_booking"
    /\ reply.code = 400
    /\ EarlierConverted(reply.quote_id)
    /\ Len(bookings) = 1
    /\ Len(tasks) = 1
    /\ \E i \in 1 .. Len(contacts) :
        /\ contacts[i].id = reply.quote_id
        /\ "convertedToBooking" \in DOMAIN contacts[i]
        /\ contacts[i].convertedToBooking = bookings[1].id

\* No conversion of the lead is under way, and one has ended.
ConvertEnded(quote_id) ==
    /\ \A r \in Requests :
        rq[r].op = "convert_chatbot_to_booking" => rq[r].quote_id # quote_id
    /\ \E r \in Requests :
        rq[r].op = "done" /\ "quote_id" \in DOMAIN rq[r] /\ rq[r].quote_id = quote_id

\* The lead's convertedToBooking is b.
MarkedConverted(lead, b) ==
    "convertedToBooking" \in DOMAIN lead /\ lead.convertedToBooking = b

\* C3: once a conversion of a lead has ended, with success or with an error,
\* the lead's convertedToBooking is b exactly if a Booking b with that lead in
\* its convertedFromChatbot is stored.
C3_LeadMarkedIffBooked ==
    \A i \in 1 .. Len(contacts) :
        ConvertEnded(contacts[i].id) =>
            \A b \in {uuid4(r, 1) : r \in Requests} :
                MarkedConverted(contacts[i], b)
                <=> \E j \in 1 .. Len(bookings) :
                        /\ bookings[j].id = b
                        /\ bookings[j].convertedFromChatbot = contacts[i].id

\* C4: at most one chatbot lead is stored for a session, whatever the
\* interleaving of the messages of the session.
C4_OneLeadPerSession ==
    \A i, j \in 1 .. Len(contacts) :
        (/\ contacts[i].source = "chatbot"
         /\ contacts[j].source = "chatbot"
         /\ contacts[i].sessionId = contacts[j].sessionId) => i = j

-----------------------------------------------------------------------------
(* Properties of the financial reports.                                    *)

\* The sum of the amounts of the payments of docs at the positions lo..hi
\* that are in I and are refunds (refunds = TRUE) or are not (FALSE).
RECURSIVE SumBetween(_, _, _, _, _)
SumBetween(docs, I, lo, hi, refunds) ==
    IF lo > hi THEN 0
    ELSE IF lo = hi
    THEN (IF lo \in I /\ (docs[lo].paymentType = "refund") = refunds
          THEN docs[lo].amount ELSE 0)
    ELSE SumBetween(docs, I, lo, (lo + hi) \div 2, refunds)
         + SumBetween(docs, I, (lo + hi) \div 2 + 1, hi, refunds)

\* The same over all the positions of I.
SumOver(docs, I, refunds) == SumBetween(docs, I, 1, Len(docs), refunds)

\* What the claim gives for cost C and payments docs.
ClaimedFinancials(C, docs) ==
    LET paid == SumOver(docs, DOMAIN docs, FALSE)
        refunded == SumOver(docs, DOMAIN docs, TRUE)
        due == IF C - paid + refunded >= 0 THEN C - paid + refunded ELSE 0
    IN  [totalPaid |-> paid, totalRefunded |-> refunded, balanceDue |-> due,
         paymentStatus |-> IF due <= 0 /\ C > 0 THEN "paid"
                           ELSE IF paid > 0 THEN "partial" ELSE "unpaid"]

StoredPaymentsOf(booking_id) ==
    {i \in 1 .. Len(payments) : payments[i].bookingId = booking_id}

\* C12: the financial state reported for a booking is the fold over every
\* payment stored for it, whatever their number, and its totalCost: the read
\* of get_booking_details takes in all the stored payments of the booking,
\* the report is computed from what was read, and no booking carries a
\* running balance.
C12_ReportFoldsWholeLedger ==
    [][\A r \in Requests :
        /\ (At(r, "get_booking_details", "payments") /\ rq'[r].pc = "tasks") =>
              /\ Len(rq'[r].payments) = Cardinality(StoredPaymentsOf(rq[r].booking_id))
              /\ \A refunds \in BOOLEAN :
                    SumOver(rq'[r].payments, DOMAIN rq'[r].payments, refunds)
                    = SumOver(payments, StoredPaymentsOf(rq[r].booking_id), refunds)
        /\ (At(r, "get_booking_details", "tasks") /\ rq'[r].op = "done") =>
              LET claimed == ClaimedFinancials(rq[r].booking.totalCost, rq[r].payments)
              IN  /\ reply'.financials.totalPaid = claimed.totalPaid
                  /\ reply'.financials.totalRefunded = claimed.totalRefunded
                  /\ reply'.financials.balanceDue = claimed.balanceDue
        /\ \A i \in 1 .. Len(bookings') :
              DOMAIN bookings'[i] \cap {"balanceDue", "totalPaid", "totalRefunded"} = {}
      ]_vars

\* What the claim gives for one stored booking: max(0, cost - paid +
\* refunded) when its cost is positive, else 0.
ClaimedOutstanding(booking) ==
    LET due == booking.totalCost
               - SumOver(payments, StoredPaymentsOf(booking.id), FALSE)
               + SumOver(payments, StoredPaymentsOf(booking.id), TRUE)
    IN  IF booking.totalCost > 0 /\ due > 0 THEN due ELSE 0

\* The sum of ClaimedOutstanding over the stored bookings at the positions I.
RECURSIVE SumOutstanding(_)
SumOutstanding(I) ==
    IF I = {} THEN 0
    ELSE LET i == CHOOSE j \in I : TRUE
         IN  ClaimedOutstanding(bookings[i]) + SumOutstanding(I \ {i})

\* C13: the revenue summary's outstandingBalance is the sum, over the
\* bookings with totalCost > 0, of max(0, totalCost - paid + refunded); an
\* overpaid booking and a booking without cost contribute 0.
C13_OutstandingBalance ==
    reply.op = "get_revenue_summary" =>
        reply.summary.outstandingBalance = SumOutstanding(1 .. Len(bookings))

\* A summary over a booking of cost 1000 with 200 paid and a booking of cost
\* 50 with 75 paid: 800 outstanding, nothing taken off for the overpayment.
C13_Witness ==
    /\ reply.op = "get_revenue_summary"
    /\ reply.summary.outstandingBalance = 800
    /\ bookings[1].totalCost = 1000
    /\ SumOver(payments, StoredPaymentsOf(bookings[1].id), FALSE) = 200
    /\ bookings[2].totalCost = 50
    /\ SumOver(payments, StoredPaymentsOf(bookings[2].id), FALSE) = 75

\* The positions of the stored payments logged from day lo on and before hi.
StoredPaymentsIn(lo, hi) ==
    {i \in 1 .. Len(payments) : payments[i].createdAt >= lo /\ payments[i].createdAt < hi}

\* Gross revenue of the stored payments at the positions I: non-refund
\* payments minus refunds.
GrossRevenue(I) == SumOver(payments, I, FALSE) - SumOver(payments, I, TRUE)

\* The growth the claim gives, to one decimal and in tenths of a percent.
ClaimedGrowth(thisMonthGross, lastMonthGross) ==
    IF lastMonthGross > 0
    THEN round_half_even((thisMonthGross - lastMonthGross) * 1000, lastMonthGross)
    ELSE IF lastMonthGross < 0
    THEN round_half_even((lastMonthGross - thisMonthGross) * 1000, 0 - lastMonthGross)
    ELSE IF thisMonthGross > 0 THEN 1000 ELSE 0

\* C14: growthPercentage is (thisMonthGross - lastMonthGross) / lastMonthGross
\* * 100 for a lastMonthGross other than 0, 100 for lastMonthGross = 0 and
\* thisMonthGross > 0, and 0 when both are 0, the two being the gross revenue
\* (non-refund payments minus refunds) of the current and the previous month.
C14_GrowthFromGrossRevenue ==
    reply.op = "get_revenue_summary" =>
        LET t == reply.summary.lastUpdated
            thisMonthGross == GrossRevenue(StoredPaymentsIn(first_of_month(t), t + 1))
            lastMonthGross ==
                GrossRevenue(StoredPaymentsIn(first_of_last_month(t), first_of_month(t)))
        IN  (lastMonthGross # 0 \/ thisMonthGross >= 0) =>
                reply.summary.growthPercentage = ClaimedGrowth(thisMonthGross, lastMonthGross)

-----------------------------------------------------------------------------
(* Properties of the lead status, the booking costs, the dashboard, the    *)
(* booking workflow and the chat session.                                  *)

\* C15: a status other than new, read, replied, contacted is refused without
\* a change to the Lead, so every stored Lead's status is one of the four.
C15_LeadStatusValid ==
    \A i \in 1 .. Len(contacts) :
        contacts[i].status \in {"new", "read", "replied", "contacted"}

\* C16: a negative totalCost, contractorCost or laborHours is refused by
\* every admin operation without a change, so each of the three is null or
\* >= 0 on every stored booking.
C16_CostsNonNegative ==
    \A i \in 1 .. Len(bookings) :
        /\ bookings[i].totalCost = None \/ bookings[i].totalCost >= 0
        /\ bookings[i].contractorCost = None \/ bookings[i].contractorCost >= 0
        /\ bookings[i].laborHours = None \/ bookings[i].laborHours >= 0

\* The number of stored leads that are, or are not, chatbot leads.
LeadsOfSource(chatbot) ==
    Cardinality({i \in 1 .. Len(contacts) : (contacts[i].source = "chatbot") = chatbot})

\* C17: a dashboard summary counts each Lead in exactly one of total_contacts
\* (source not chatbot) and chatbot_quotes (source chatbot), both over the
\* same store contents, also while other requests add or delete leads: when
\* the handler has counted all leads, the chatbot count it took before is the
\* number of chatbot leads stored and the difference is the number of the
\* others, never negative; and the summary reports these two numbers.
C17_DashboardCountsEachLeadOnce ==
    [][\A r \in Requests :
        /\ (rq[r].op = "get_dashboard_stats" /\ rq[r].pc = 2 /\ rq'[r] # rq[r]) =>
              /\ rq'[r].counts[1] = LeadsOfSource(TRUE)
              /\ rq'[r].counts[2] - rq'[r].counts[1] = LeadsOfSource(FALSE)
              /\ rq'[r].counts[2] - rq'[r].counts[1] >= 0
        /\ (rq[r].op = "get_dashboard_stats" /\ rq'[r].op = "done") =>
              /\ reply'.chatbot_quotes = rq[r].counts[1]
              /\ reply'.total_contacts = rq[r].counts[2] - rq[r].counts[1]
      ]_vars

\* The task a status change to the given status is said to generate:
\* (taskType, priority, due offset in days).
ClaimedTask ==
    [pending |-> <<"confirmation", "high", 1>>,
     confirmed |-> <<"pre_move_check", "medium", 2>>,
     completed |-> <<"post_service_followup", "low", 3>>]

\* The bookings other than the one with the given id are as before, and that
\* one has the given status.
OnlyStatusChanged(booking_id, new_status) ==
    /\ Len(bookings') = Len(bookings)
    /\ \A i \in 1 .. Len(bookings) :
          IF bookings[i].id = booking_id
          THEN bookings'[i].status = new_status /\ bookings'[i].id = booking_id
          ELSE bookings'[i] = bookings[i]

\* C18: a status-with-tasks update of an existing booking to pending,
\* confirmed or completed sets that status and inserts exactly one task: for
\* that booking, autoGenerated, pending, with the type, priority and due
\* offset of its target status; an update to cancelled inserts none; an update
\* rejected for an invalid status (400) or an unknown booking (404) inserts
\* no task and changes no booking.
C18_StatusChangeGeneratesTask ==
    [][\A r \in Requests :
        /\ (rq[r].op = "idle" /\ rq'[r].op = "done"
              /\ reply'.op = "update_booking_status_with_tasks") =>
              /\ reply'.code \in {400, 404}
              /\ reply'.code = 400 <=> reply'.status \notin WorkflowStatuses
              /\ reply'.code = 404 => \A i \in 1 .. Len(bookings) : bookings[i].id # reply'.id
              /\ bookings' = bookings
              /\ tasks' = tasks
        /\ (rq[r].op = "idle" /\ rq'[r].op = "update_booking_status_with_tasks") =>
              /\ OnlyStatusChanged(rq'[r].booking_id, rq'[r].new_status)
              /\ \E i \in 1 .. Len(bookings) : bookings[i].id = rq'[r].booking_id
              /\ tasks' = tasks
        /\ (rq[r].op = "update_booking_status_with_tasks" /\ rq'[r].op = "done") =>
              /\ bookings' = bookings
              /\ reply'.code = 200
              /\ IF rq[r].new_status = "cancelled" THEN tasks' = tasks
                 ELSE /\ Len(tasks') = Len(tasks) + 1
                      /\ SubSeq(tasks', 1, Len(tasks)) = tasks
                      /\ LET task == tasks'[Len(tasks')]
                             claimed == ClaimedTask[rq[r].new_status]
                         IN  /\ task.bookingId = rq[r].booking_id
                             /\ task.autoGenerated
                             /\ task.status = "pending"
                             /\ task.taskType = claimed[1]
                             /\ task.priority = claimed[2]
                             /\ task.dueDate = task.createdAt + claimed[3]
                             /\ task.createdAt = now
      ]_vars

\* A booking completed through the workflow endpoint and its follow-up task.
C18_Witness ==
    /\ reply.op = "update_booking_status_with_tasks"
    /\ reply.code = 200
    /\ reply.status = "completed"
    /\ \E i \in 1 .. Len(tasks) :
          /\ tasks[i].bookingId = reply.id
          /\ tasks[i].taskType = "post_service_followup"
          /\ tasks[i].dueDate = tasks[i].createdAt + 3
    /\ \E i \in 1 .. Len(bookings) :
          bookings[i].id = reply.id /\ bookings[i].status = "completed"

\* Request r of send_chat_message ends in this step where the API key is
\* read (on arrival) or where the LLM is called: the handler ends there only
\* when the key is missing or the call raised.
EndsAtLLM(r) ==
    /\ rq[r].op = "idle" \/ At(r, "send_chat_message", "bot")
    /\ rq'[r].op = "done"
    /\ reply'.op = "send_chat_message"

\* C19: when the LLM call fails or the API key is missing, send_chat_message
\* answers without an error with the fixed fallback bot message, carrying the
\* callback phone number, for the session of the request, and appends that
\* message to the stored messages of the session.
C19_FallbackOnLLMFailure ==
    [][\A r \in Requests :
        EndsAtLLM(r) =>
            /\ reply'.code = 200
            /\ reply'.message = "please call us at (812) 669-4165"
            /\ rq[r].op # "idle" => reply'.sessionId = rq[r].body.sessionId
            /\ Len(chat_messages') = Len(chat_messages) + 1
            /\ SubSeq(chat_messages', 1, Len(chat_messages)) = chat_messages
            /\ chat_messages'[Len(chat_messages')].sessionId = reply'.sessionId
            /\ chat_messages'[Len(chat_messages')].message = reply'.message
            /\ chat_messages'[Len(chat_messages')].sender = "bot"
      ]_vars

\* The fallback answer to a stored user message is the last message of the
\* session.
C19_Witness ==
    /\ reply.op = "send_chat_message"
    /\ reply.code = 200
    /\ reply.message = fallback_text
    /\ Len(chat_messages) >= 2
    /\ chat_messages[Len(chat_messages)].message = fallback_text
    /\ chat_messages[Len(chat_messages)].sessionId = reply.sessionId
    /\ chat_messages[Len(chat_messages) - 1].sender = "user"
    /\ chat_messages[Len(chat_messages) - 1].sessionId = reply.sessionId

\* The chat session records of session s.
SessionRecords(coll, s) == {i \in 1 .. Len(coll) : coll[i].id = s}

\* C20: a ChatSession record of session s exists once a message of s has
\* been handled, with lastActivity the time of that message and the customer
\* fields known so far, whatever the outcome of the LLM call; and
\* clear_chat_session(s) removes it.  Stated on the steps that settle it: a
\* message whose handling ends where the LLM outcome is known, or with the
\* session write, leaves the record of its session with lastActivity now;
\* the session delete of clear_chat_session leaves no record of s.
C20_SessionLifecycle ==
    [][\A r \in Requests :
        /\ (EndsAtLLM(r) \/ (At(r, "send_chat_message", "session") /\ rq'[r] # rq[r])) =>
              /\ SessionRecords(chat_sessions', IF rq[r].op = "idle" THEN reply'.sessionId
                                                ELSE rq[r].body.sessionId) # {}
              /\ \A i \in SessionRecords(chat_sessions',
                                         IF rq[r].op = "idle" THEN reply'.sessionId
                                         ELSE rq[r].body.sessionId) :
                    /\ chat_sessions'[i].lastActivity = now
                    /\ At(r, "send_chat_message", "session") =>
                          Matches(chat_sessions'[i],
                                  session_data(rq[r].body.sessionId, rq[r].contact_info,
                                               now))
        /\ (At(r, "clear_chat_session", "session") /\ rq'[r] # rq[r]) =>
              SessionRecords(chat_sessions', rq[r].session_id) = {}
      ]_vars

-----------------------------------------------------------------------------
(* Properties of session clearing, the session aggregator, the data reset, *)
(* admin authentication and the task display fields.                       *)

\* The store holds a chat message, a chat session or a chatbot lead of s.
HoldsOfSession(msgs, sessions, leads, s) ==
    \/ \E i \in 1 .. Len(msgs) : msgs[i].sessionId = s
    \/ \E i \in 1 .. Len(sessions) : sessions[i].id = s
    \/ \E i \in 1 .. Len(leads) : leads[i].sessionId = s /\ leads[i].source = "chatbot"

\* C21: when clear_chat_session(s) completes, the store holds no chat message
\* of s, no chat session s and no chatbot lead of s, also when a
\* send_chat_message request for s is in flight while the clear runs; and no
\* step other than the message delete of clear_chat_session removes or
\* changes a stored chat message.
C21_ClearLeavesNothing ==
    [][/\ \A r \in Requests :
            (At(r, "clear_chat_session", "contact") /\ rq'[r].op = "done") =>
                ~HoldsOfSession(chat_messages', chat_sessions', contacts',
                                rq[r].session_id)
       /\ (\A r \in Requests : ~(rq[r].op = "idle" /\ rq'[r].op = "clear_chat_session")) =>
            /\ Len(chat_messages') >= Len(chat_messages)
            /\ SubSeq(chat_messages', 1, Len(chat_messages)) = chat_messages
      ]_vars

\* collected_info after the first k user messages of session s.
CollectedAfter(s, k) ==
    contact_info_fold(collected_info, SubSeq(UserTexts(chat_messages, s), 1, k))

\* The value found by the latest of the texts in which extract finds one.
LatestEmail(texts) ==
    IF \A i \in 1 .. Len(texts) : extract_email(texts[i]) = NoneStr THEN NoneStr
    ELSE extract_email(texts[CHOOSE i \in 1 .. Len(texts) :
            /\ extract_email(texts[i]) # NoneStr
            /\ \A j \in (i + 1) .. Len(texts) : extract_email(texts[j]) = NoneStr])

LatestPhone(texts) ==
    IF \A i \in 1 .. Len(texts) : extract_phone(texts[i]) = NoneStr THEN NoneStr
    ELSE extract_phone(texts[CHOOSE i \in 1 .. Len(texts) :
            /\ extract_phone(texts[i]) # NoneStr
            /\ \A j \in (i + 1) .. Len(texts) : extract_phone(texts[j]) = NoneStr])

FirstWriterFields ==
    {"name", "from_address", "to_address", "move_date", "property_size", "special_items"}

\* C22: the fold of a session's user messages gives email and phone the
\* value of the latest message in which one is detected, and never replaces
\* a collected name, from_address, to_address, move_date, property_size or
\* special_items by the value of a later message.
C22_FoldWriters ==
    \A s \in Sessions :
        LET texts == UserTexts(chat_messages, s)
            info == get_session_contact_info(chat_messages, s)
        IN  /\ info.email = LatestEmail(texts)
            /\ info.phone = LatestPhone(texts)
            /\ \A k \in 1 .. Len(texts), f \in FirstWriterFields :
                  CollectedAfter(s, k - 1)[f] # NoneStr =>
                      CollectedAfter(s, k)[f] = CollectedAfter(s, k - 1)[f]

\* C23: reset_database deletes nothing unless the confirmation is exactly
\* DELETE ALL DATA: any other or a missing phrase is refused and no collection
\* changes; with the phrase, each delete leaves its collection empty and the
\* counts in the reply are the numbers of records the deletes removed.
C23_ResetNeedsPhrase ==
    [][\A r \in Requests :
        /\ (rq[r].op = "idle" /\ reply'.op = "reset_database" /\ rq'[r].op = "done") =>
              /\ reply'.code = 400
              /\ reply'.confirmation # "DELETE ALL DATA"
              /\ UNCHANGED <<contacts, bookings, payments, tasks>>
        /\ (rq[r].op = "idle" /\ rq'[r].op = "reset_database") =>
              UNCHANGED <<contacts, bookings, payments, tasks>>
        /\ (rq[r].op = "reset_database" /\ rq'[r].op = "done") =>
              /\ reply'.code = 200
              /\ tasks' = <<>>
              /\ reply'.deleted = reply'.deleted_count
      ]_vars

\* The credentials are a token of the administrator, signed with the
\* server's key, whose 24 hours are not over at time t.
ClaimedAuthorized(credentials, t) ==
    /\ credentials.kind = "jwt"
    /\ credentials.secret = "swift-move-admin-secret-key-2024"
    /\ credentials.username = "admin"
    /\ t < credentials.exp

\* Only the authentication part of C24: a request with other credentials
\* is refused and nothing is returned or changed; with such credentials it
\* reaches its handler; only such a request changes the store.
AdminOperationsGuarded ==
    [][/\ \A r \in Requests :
            /\ (rq[r].op = "idle" /\ rq'[r].op = "done"
                  /\ reply'.op = "get_current_admin") =>
                  /\ ~ClaimedAuthorized(reply'.credentials, now)
                  /\ reply'.code \in {401, 403}
                  /\ DOMAIN reply' = {"op", "code", "credentials"}
                  /\ UNCHANGED <<contacts, bookings, payments, tasks>>
            /\ (rq[r].op = "idle" /\ rq'[r].op = "get_current_admin") =>
                  /\ ClaimedAuthorized(rq'[r].credentials, now)
                  /\ UNCHANGED <<contacts, bookings, payments, tasks>>
       /\ (<<contacts, bookings, payments, tasks>>' # <<contacts, bookings, payments, tasks>>) =>
            \E r \in Requests :
                At(r, "get_current_admin", "handler") /\ rq'[r].op = "done"
      ]_vars

\* The answers of admin_login: 400 with a missing field, 200 with the
\* administrator's credentials and a token good until 24 hours later and not
\* after, 401 with any other credentials.
LoginAnswers ==
    [][\A r \in Requests :
        (rq[r].op = "idle" /\ rq'[r].op = "done" /\ reply'.op = "admin_login") =>
            LET given == reply'.credentials
            IN  IF given.username = NoneStr \/ given.password = NoneStr
                THEN reply'.code = 400
                ELSE IF given.username = "admin" /\ given.password = "admin123"
                THEN /\ reply'.code = 200
                     /\ \A t \in now .. (MaxTime + 1) :
                          ClaimedAuthorized(reply'.access_token, t) <=> t < now + 1
                     /\ verify_token(reply'.access_token, now) = "admin"
                ELSE reply'.code = 401
      ]_vars

\* C24: an admin operation invoked without token, with a malformed or expired
\* token or with the token of another user is refused and neither returns nor
\* changes a stored record; the token of a successful login is accepted for
\* 24 hours and not after; login with wrong credentials is answered 401 and
\* with a missing field 400.
C24_AdminAuthentication == AdminOperationsGuarded /\ LoginAnswers

DisplayFields == {"contactName", "contactEmail", "serviceType", "serviceContext"}

\* C25: the display fields of a task are a snapshot taken at its creation:
\* no step changes them in a stored task, and the task listing returns, for
\* each task, the display fields the task has stored.
C25_DisplayFieldsAreSnapshot ==
    [][/\ \A i \in 1 .. Len(tasks) : \A j \in 1 .. Len(tasks') :
            tasks'[j].id = tasks[i].id =>
                \A f \in DisplayFields : tasks'[j][f] = tasks[i][f]
       /\ (reply'.op = "get_all_tasks" /\ reply' # reply) =>
            \A i \in 1 .. Len(reply'.tasks) : \A j \in 1 .. Len(tasks) :
                tasks[j].id = reply'.tasks[i].id =>
                    \A f \in DisplayFields : reply'.tasks[i][f] = tasks[j][f]
      ]_vars

\* C26: a chat message handled in the session of a converted chatbot lead
\* updates the lead without undoing the conversion: the write of
\* send_chat_message keeps the id, convertedToBooking and the status
\* contacted of every converted lead.
C26_ChatKeepsConversion ==
    [][\A r \in Requests :
        (At(r, "send_chat_message", "write_contact") /\ rq'[r].op = "done") =>
            \A i \in 1 .. Len(contacts) :
                "convertedToBooking" \in DOMAIN contacts[i] =>
                    /\ Len(contacts') >= i
                    /\ contacts'[i].id = contacts[i].id
                    /\ "convertedToBooking" \in DOMAIN contacts'[i]
                    /\ contacts'[i].convertedToBooking = contacts[i].convertedToBooking
                    /\ contacts'[i].status = "contacted"
      ]_vars

\* C27: in every state reached by task create, update and transition
\* requests, completedAt is set exactly when the status is completed,
\* startedAt is not set when it is pending and is set when it is in_progress.
C27_StampsAgreeWithStatus ==
    \A i \in 1 .. Len(tasks) :
        /\ tasks[i].completedAt # None <=> tasks[i].status = "completed"
        /\ tasks[i].status = "pending" => tasks[i].startedAt = None
        /\ tasks[i].status = "in_progress" => tasks[i].startedAt # None

\* C28: when transition requests for one task interleave, every status write
\* applied is an edge of the transition graph from the status stored just
\* before the write, and the write leaves no task cancelled with completedAt
\* set.
C28_InterleavedTransitionsFollowGraph ==
    [][\A r \in Requests :
        (At(r, "transition_task_status", "update_one") /\ rq'[r].op = "done") =>
            \A i \in 1 .. Len(tasks) :
                tasks[i].id = rq[r].id =>
                    /\ rq[r].target \in valid_transitions(tasks[i].status)
                    /\ ~(tasks'[i].status = "cancelled" /\ tasks'[i].completedAt # None)
      ]_vars

\* C29: in every reachable state the bookingId of every stored payment is
\* the id of a stored booking, also while a create_payment request and a
\* reset_database request interleave.
C29_PaymentsReferToBookings ==
    \A i \in 1 .. Len(payments) :
        \E j \in 1 .. Len(bookings) : bookings[j].id = payments[i].bookingId

\* The sum, over the stored bookings at the positions I, of the balanceDue
\* that the booking details compute from the booking and its payments.
RECURSIVE SumBalanceDue(_)
SumBalanceDue(I) ==
    IF I = {} THEN 0
    ELSE LET i == CHOOSE j \in I : TRUE
         IN  financials(bookings[i], find(payments, [bookingId |-> bookings[i].id])).balanceDue
             + SumBalanceDue(I \ {i})

\* C30: the outstandingBalance of the revenue summary equals the sum over
\* all bookings of the balanceDue of the booking details, also for bookings
\* without totalCost that have refunds.
C30_SummaryAgreesWithDetails ==
    reply.op = "get_revenue_summary" =>
        reply.summary.outstandingBalance = SumBalanceDue(1 .. Len(bookings))

====
